---- MODULE Spec2Model ----
(***************************************************************************)
(* Model of the personalization kernel of backend/main.py: the scenario    *)
(* catalog (SCENARIOS), the scenario matcher (match_scenario and           *)
(* check_trigger), the in-memory UserIntelligenceStore and the request     *)
(* handlers that drive them.                                               *)
(*                                                                         *)
(* Conventions:                                                            *)
(*   - a Python dict is a function whose DOMAIN is the set of keys;        *)
(*   - a Python list is a sequence;                                        *)
(*   - None is the string "None" where a string is expected and the empty  *)
(*     set where an integer is expected (the integer n is then {n});       *)
(*   - a match score k/n is the record [num, den] in lowest terms, so two  *)
(*     scores are equal as floats exactly when the records are equal;      *)
(*   - signal values that are floats with one decimal (font_scale,         *)
(*     brightness, volume_level) are stored multiplied by 10;              *)
(*   - scenario_affinity values (multiples of 0.5) are stored doubled;     *)
(*   - the clock counts milliseconds from the start of the model's epoch   *)
(*     and the server's local time zone is UTC.                            *)
(***************************************************************************)
EXTENDS Integers, Sequences, FiniteSets, TLC

VARIABLES
    SCENARIOS,            \* the catalog: sequence of personas in definition order
    store,                \* UserIntelligenceStore._store
    store_aggregates,     \* UserIntelligenceStore._feedback_aggregates
    event_counts,         \* UserIntelligenceStore._event_counts
    feedback_aggregates,  \* module-level legacy feedback_aggregates
    now,                  \* time.time() * 1000
    request,              \* the call being served: [op, ...arguments]
    response,             \* what that call returned (or the error it raised)
    matched,              \* what match_scenario answered at process start, per probed snapshot
    applied,              \* per id, how many events the loop of add_events has taken up
    scope                 \* which input universe this run draws its inputs from

vars == <<SCENARIOS, store, store_aggregates, event_counts, feedback_aggregates,
          now, request, response, matched, applied, scope>>

\* None where a string is expected
None == "None"

\* an Optional[int]: None is the empty set, the integer n is {n}
NoInt == {}

SomeInt(n) == {n}

IntOf(x) == CHOOSE n \in x : TRUE

\* {} as a dict
EmptyDict == [k \in {} |-> 0]

-----------------------------------------------------------------------------
(* Bounds of the model *)

\* longest catalog drawn from the persona pool in the matcher specification
MaxCatalog == 3

-----------------------------------------------------------------------------
(* Generic helpers *)

Range(s) == {s[i] : i \in 1..Len(s)}

Min(a, b) == IF a <= b THEN a ELSE b

Max(a, b) == IF a >= b THEN a ELSE b

\* s[-n:] of a Python list
LastN(s, n) == IF Len(s) <= n THEN s ELSE SubSeq(s, Len(s) - n + 1, Len(s))

\* s[:n] of a Python list
FirstN(s, n) == IF Len(s) <= n THEN s ELSE SubSeq(s, 1, n)

\* list.remove(x): drops the first occurrence of x
RECURSIVE ListRemove(_, _)
ListRemove(s, x) ==
    IF s = <<>> THEN <<>>
    ELSE IF Head(s) = x THEN Tail(s)
    ELSE <<Head(s)>> \o ListRemove(Tail(s), x)

RECURSIVE Gcd(_, _)
Gcd(a, b) == IF b = 0 THEN a ELSE Gcd(b, a % b)

\* the float k / n, kept exact
Frac(k, n) == LET g == Gcd(k, n) IN [num |-> k \div g, den |-> n \div g]

FracLT(a, b) == a.num * b.den < b.num * a.den

FracLE(a, b) == a.num * b.den <= b.num * a.den

\* all sequences without repetition over S of length at most n
RECURSIVE Arrangements(_, _)
Arrangements(S, n) ==
    IF n = 0 THEN {<<>>}
    ELSE LET shorter == Arrangements(S, n - 1)
         IN shorter \cup
            UNION {{Append(s, x) : x \in S \ Range(s)} :
                      s \in {t \in shorter : Len(t) = n - 1}}

Injective(s) == \A i, j \in 1..Len(s) : i # j => s[i] # s[j]

-----------------------------------------------------------------------------
(* The scenario catalog *)

Sugg(action, priority, type, source) ==
    [action |-> action, priority |-> priority,
     specificContent |-> [type |-> type, source |-> source]]

PersonaDef(id, triggers, suggestions) ==
    [id |-> id, triggers |-> triggers, suggestions |-> suggestions]

morning_devotee ==
    PersonaDef("morning_devotee",
        <<"morning", "hindi_or_regional", "spiritual_interest", "low_brightness">>,
        <<Sugg("play_aarti", 1, "video", "YouTube"),
          Sugg("play_chalisa", 2, "song", "Spotify"),
          Sugg("show_panchang", 3, "article", "Drik Panchang")>>)

evening_merchant ==
    PersonaDef("evening_merchant",
        <<"evening", "business_use", "cellular_network">>,
        <<Sugg("show_ledger", 1, "app", "Khatabook"),
          Sugg("watch_tips", 2, "video", "YouTube"),
          Sugg("play_music", 3, "song", "JioSaavn")>>)

budget_student ==
    PersonaDef("budget_student",
        <<"low_end_device", "student_occupation", "low_storage">>,
        <<Sugg("watch_class", 1, "video", "YouTube"),
          Sugg("open_khan", 2, "app", "Khan Academy"),
          Sugg("join_class", 3, "app", "Unacademy")>>)

weekend_family ==
    PersonaDef("weekend_family",
        <<"weekend", "evening", "wifi_connected", "high_volume">>,
        <<Sugg("watch_movie", 1, "movie", "Prime Video"),
          Sugg("show_recipe", 2, "recipe", "YouTube"),
          Sugg("play_song", 3, "song", "Spotify")>>)

night_owl ==
    PersonaDef("night_owl",
        <<"night", "high_end_device", "headphones_connected", "dark_mode">>,
        <<Sugg("play_focus_music", 1, "song", "YouTube"),
          Sugg("open_kindle", 2, "app", "Kindle"),
          Sugg("play_sleep_story", 3, "podcast", "Spotify")>>)

mobile_commuter ==
    PersonaDef("mobile_commuter",
        <<"is_moving", "morning_or_evening", "cellular_network", "steps_increasing">>,
        <<Sugg("play_podcast", 1, "podcast", "Spotify"),
          Sugg("open_news", 2, "app", "Inshorts"),
          Sugg("download_music", 3, "song", "JioSaavn")>>)

digital_newcomer ==
    PersonaDef("digital_newcomer",
        <<"large_font_scale", "first_launch", "few_sessions", "reduced_motion">>,
        <<Sugg("start_tutorial", 1, "video", "YouTube"),
          Sugg("enable_voice", 2, "app", "Google"),
          Sugg("whatsapp_tutorial", 3, "video", "YouTube")>>)

busy_professional ==
    PersonaDef("busy_professional",
        <<"many_calendar_events", "weekday", "work_hours", "is_busy">>,
        <<Sugg("quick_meditation", 1, "app", "Headspace"),
          Sugg("learn_skill", 2, "app", "LinkedIn"),
          Sugg("order_coffee", 3, "app", "Starbucks")>>)

\* SCENARIOS as the module defines it, in definition order
ShippedCatalog ==
    <<morning_devotee, evening_merchant, budget_student, weekend_family,
      night_owl, mobile_commuter, digital_newcomer, busy_professional>>

ScenarioIds(cat) == {cat[i].id : i \in 1..Len(cat)}

\* SCENARIOS[scenario_id]
ScenarioIndex(cat, id) == CHOOSE i \in 1..Len(cat) : cat[i].id = id

-----------------------------------------------------------------------------
(* Signal snapshots: the fields of FullSignalPayload that the kernel reads *)

DefaultSignals ==
    [fingerprint_id |-> None,
     journey_day |-> 0,
     device |-> [is_low_end |-> FALSE, font_scale |-> 10,
                 color_scheme |-> "light", reduced_motion |-> FALSE],
     network |-> [type |-> "UNKNOWN", is_wifi |-> FALSE],
     context |-> [language |-> "en", is_morning |-> FALSE, is_afternoon |-> TRUE,
                  is_evening |-> FALSE, is_night |-> FALSE, is_weekend |-> FALSE],
     environment |-> [brightness |-> 5, volume_level |-> 5,
                      is_headphones_connected |-> FALSE],
     app |-> [session_count |-> 1, storage_available |-> NoInt,
              is_first_launch |-> FALSE],
     activity |-> [steps_today |-> NoInt, is_moving |-> FALSE],
     social |-> [upcoming_events_count |-> NoInt, is_busy |-> FALSE],
     questionnaire |-> [primary_use |-> None, interests |-> {},
                        occupation |-> None]]

GiB == 1024 * 1024 * 1024

check_trigger(trigger, signals) ==
    CASE trigger = "morning" -> signals.context.is_morning
      [] trigger = "evening" -> signals.context.is_evening
      [] trigger = "night" -> signals.context.is_night
      [] trigger = "morning_or_evening" ->
            signals.context.is_morning \/ signals.context.is_evening
      [] trigger = "weekend" -> signals.context.is_weekend
      [] trigger = "weekday" -> ~signals.context.is_weekend
      [] trigger = "work_hours" ->
            signals.context.is_afternoon /\ ~signals.context.is_weekend
      [] trigger = "hindi_or_regional" ->
            signals.context.language \in {"hi", "ta", "te", "mr", "bn", "gu", "kn", "ml"}
      [] trigger = "low_end_device" -> signals.device.is_low_end
      [] trigger = "high_end_device" -> ~signals.device.is_low_end
      [] trigger = "large_font_scale" -> signals.device.font_scale > 12
      [] trigger = "dark_mode" -> signals.device.color_scheme = "dark"
      [] trigger = "reduced_motion" -> signals.device.reduced_motion
      [] trigger = "wifi_connected" -> signals.network.is_wifi
      [] trigger = "cellular_network" -> signals.network.type = "CELLULAR"
      [] trigger = "low_brightness" -> signals.environment.brightness < 3
      [] trigger = "high_volume" -> signals.environment.volume_level > 7
      [] trigger = "headphones_connected" ->
            signals.environment.is_headphones_connected
      [] trigger = "first_launch" -> signals.app.is_first_launch
      [] trigger = "few_sessions" -> signals.app.session_count < 5
      [] trigger = "low_storage" ->
            /\ signals.app.storage_available # NoInt
            /\ IntOf(signals.app.storage_available) < GiB
      [] trigger = "is_moving" -> signals.activity.is_moving
      [] trigger = "steps_increasing" ->
            /\ signals.activity.steps_today # NoInt
            /\ IntOf(signals.activity.steps_today) > 1000
      [] trigger = "many_calendar_events" ->
            /\ signals.social.upcoming_events_count # NoInt
            /\ IntOf(signals.social.upcoming_events_count) >= 2
      [] trigger = "is_busy" -> signals.social.is_busy
      [] trigger = "spiritual_interest" ->
            \/ signals.questionnaire.primary_use = "spiritual"
            \/ "devotional" \in signals.questionnaire.interests
      [] trigger = "business_use" ->
            \/ signals.questionnaire.primary_use = "business"
            \/ signals.questionnaire.occupation = "business_owner"
      [] trigger = "student_occupation" ->
            \/ signals.questionnaire.occupation = "student"
            \/ signals.questionnaire.primary_use = "education"
      [] OTHER -> FALSE

\* the trigger names check_trigger has a branch for
RecognisedTriggers ==
    {"morning", "evening", "night", "weekend", "weekday", "work_hours",
     "morning_or_evening", "hindi_or_regional", "low_brightness", "dark_mode",
     "high_volume", "headphones_connected", "large_font_scale",
     "reduced_motion", "high_end_device", "low_end_device", "low_storage",
     "wifi_connected", "cellular_network", "is_moving", "steps_increasing",
     "first_launch", "few_sessions", "many_calendar_events", "is_busy",
     "spiritual_interest", "business_use", "student_occupation"}

-----------------------------------------------------------------------------
(* match_scenario *)

FallbackId == "general"

\* the literal 0.4 of "if confidence < 0.4"
Threshold == Frac(2, 5)

\* a default of 0 for an empty score table
EmptyConfidenceZero == Frac(0, 1)

\* the literal 0.3 returned for an empty score table
EmptyConfidence == Frac(3, 10)

\* a count in which a trigger name without a branch holds
TriggerHitsLenient(persona, signals) ==
    Cardinality({k \in 1..Len(persona.triggers) :
                    \/ persona.triggers[k] \notin RecognisedTriggers
                    \/ check_trigger(persona.triggers[k], signals)})

\* number of the persona's triggers that hold: the inner loop's "score"
TriggerHits(persona, signals) ==
    Cardinality({k \in 1..Len(persona.triggers) :
                    check_trigger(persona.triggers[k], signals)})

\* catalog positions that receive an entry in the dict "scores"
Scored(cat) == {i \in 1..Len(cat) : Len(cat[i].triggers) > 0}

\* scores[scenario_id] for the persona at position i
ScoreAt(cat, signals, i) == Frac(TriggerHits(cat[i], signals), Len(cat[i].triggers))

\* a maximum search that lets the current priority of a persona's first
\* suggestion decide between equal scores
BestIndexByPriority(cat, signals) ==
    LET Lead(i) == IF cat[i].suggestions = <<>> THEN 0
                   ELSE cat[i].suggestions[1].priority
        Top == {i \in Scored(cat) :
                  \A j \in Scored(cat) :
                      FracLE(ScoreAt(cat, signals, j), ScoreAt(cat, signals, i))}
    IN CHOOSE i \in Top :
          \A j \in Top : Lead(i) < Lead(j) \/ (Lead(i) = Lead(j) /\ i <= j)

\* a maximum search that keeps the last of several equal scores
BestIndexLast(cat, signals) ==
    CHOOSE i \in Scored(cat) :
        /\ \A j \in Scored(cat) : FracLE(ScoreAt(cat, signals, j), ScoreAt(cat, signals, i))
        /\ \A j \in Scored(cat) :
              j > i => FracLT(ScoreAt(cat, signals, j), ScoreAt(cat, signals, i))

\* max(scores, key=scores.get): the first key, in insertion order, whose
\* value no other key's value exceeds
BestIndex(cat, signals) ==
    CHOOSE i \in Scored(cat) :
        /\ \A j \in Scored(cat) : FracLE(ScoreAt(cat, signals, j), ScoreAt(cat, signals, i))
        /\ \A j \in Scored(cat) :
              j < i => FracLT(ScoreAt(cat, signals, j), ScoreAt(cat, signals, i))

\* a matcher that reports the fixed default below the threshold
match_scenario_default_confidence(cat, signals) ==
    IF Scored(cat) = {}
    THEN [scenario_id |-> FallbackId, confidence |-> EmptyConfidence]
    ELSE LET best == BestIndex(cat, signals)
             confidence == ScoreAt(cat, signals, best)
         IN IF FracLT(confidence, Threshold)
            THEN [scenario_id |-> FallbackId, confidence |-> EmptyConfidence]
            ELSE [scenario_id |-> cat[best].id, confidence |-> confidence]

match_scenario(cat, signals) ==
    IF Scored(cat) = {}
    THEN [scenario_id |-> FallbackId, confidence |-> EmptyConfidence]
    ELSE LET best == BestIndex(cat, signals)
             confidence == ScoreAt(cat, signals, best)
         IN IF FracLT(confidence, Threshold)
            THEN [scenario_id |-> FallbackId, confidence |-> confidence]
            ELSE [scenario_id |-> cat[best].id, confidence |-> confidence]

-----------------------------------------------------------------------------
(* Events: dicts, so functions whose DOMAIN is the set of keys present.    *)
(* Only the keys the store reads are kept (event_name, value and metadata  *)
(* are never read).                                                        *)

\* event.get(key, default)
EventGet(event, key, default) ==
    IF key \in DOMAIN event THEN event[key] ELSE default

\* truth value of an Optional[str]
Truthy(x) == x # None /\ x # ""

MsPerHour == 60 * 60 * 1000

MsPerDay == 24 * 60 * 60 * 1000

\* datetime.fromtimestamp(event_time / 1000).hour
HourOf(event_time) == (event_time \div MsPerHour) % 24

\* sorted(xs) of a list of distinct integers
RECURSIVE sorted(_)
sorted(xs) ==
    IF xs = <<>> THEN <<>>
    ELSE LET m == CHOOSE x \in Range(xs) : \A y \in Range(xs) : x <= y
         IN <<m>> \o sorted(ListRemove(xs, m))

-----------------------------------------------------------------------------
(* UserIntelligenceStore *)

RecentEventsCap == 100

ContentTypesCap == 5

SourcesCap == 5

ActiveHoursCap == 8

ScenarioHistoryCap == 20

\* the record get_or_create_user stores for an id it has not seen
NewUser(fingerprint_id, t) ==
    [fingerprint_id |-> fingerprint_id,
     created_at |-> t,
     updated_at |-> t,
     journey_day |-> 0,
     first_seen_at |-> t,
     recent_events |-> <<>>,
     total_events |-> 0,
     patterns |-> <<>>,
     preferences |->
        [liked_categories |-> <<>>,
         disliked_categories |-> <<>>,
         preferred_content_types |-> <<>>,
         preferred_sources |-> <<>>,
         active_hours |-> <<>>,
         preferred_time_of_day |-> None,
         avg_session_duration_ms |-> 0,
         total_sessions |-> 0,
         scenario_affinity |-> EmptyDict],
     total_likes |-> 0,
     total_dislikes |-> 0,
     last_scenario |-> None,
     scenario_history |-> <<>>]

\* a look-up that starts the record afresh
get_or_create_user_afresh(st, fingerprint_id, t) ==
    IF fingerprint_id \in DOMAIN st
    THEN [st EXCEPT ![fingerprint_id] = NewUser(fingerprint_id, t)]
    ELSE st @@ (fingerprint_id :> NewUser(fingerprint_id, t))

\* the store after get_or_create_user(fingerprint_id); the record returned
\* is the entry of that store
get_or_create_user(st, fingerprint_id, t) ==
    IF fingerprint_id \in DOMAIN st THEN st
    ELSE st @@ (fingerprint_id :> NewUser(fingerprint_id, t))

\* d[key] += delta on a dict that holds 0 for a key it lacks
DictAdd(d, key, delta) ==
    IF key \in DOMAIN d THEN [d EXCEPT ![key] = @ + delta]
    ELSE d @@ (key :> delta)

\* a list that is never trimmed
AppendUnbounded(xs, x, cap) ==
    IF x \in Range(xs) THEN xs ELSE Append(xs, x)

\* "if x not in xs: xs.append(x); xs = xs[-cap:]"
AppendRecent(xs, x, cap) ==
    IF x \in Range(xs) THEN xs ELSE LastN(Append(xs, x), cap)

\* "if hour not in hours: hours.append(hour); hours = sorted(hours)[-8:]"
AppendHour(hours, hour) ==
    IF hour \in Range(hours) THEN hours
    ELSE LastN(sorted(Append(hours, hour)), ActiveHoursCap)

\* a symmetric rule: a dislike also takes the category off the liked list
LearnCategoriesSymmetric(prefs, event_type, category) ==
    IF event_type = "like" /\ Truthy(category)
    THEN [prefs EXCEPT
            !.liked_categories =
                IF category \in Range(@) THEN @ ELSE Append(@, category),
            !.disliked_categories =
                IF category \in Range(@) THEN ListRemove(@, category) ELSE @]
    ELSE IF event_type = "dislike" /\ Truthy(category)
    THEN [prefs EXCEPT
            !.disliked_categories =
                IF category \in Range(@) THEN @ ELSE Append(@, category),
            !.liked_categories =
                IF category \in Range(@) THEN ListRemove(@, category) ELSE @]
    ELSE prefs

\* the like / dislike branch on liked_categories and disliked_categories
LearnCategories(prefs, event_type, category) ==
    IF event_type = "like" /\ Truthy(category)
    THEN [prefs EXCEPT
            !.liked_categories =
                IF category \in Range(@) THEN @ ELSE Append(@, category),
            !.disliked_categories =
                IF category \in Range(@) THEN ListRemove(@, category) ELSE @]
    ELSE IF event_type = "dislike" /\ Truthy(category)
    THEN [prefs EXCEPT
            !.disliked_categories =
                IF category \in Range(@) THEN @ ELSE Append(@, category)]
    ELSE prefs

\* a dislike that costs a whole point
LearnAffinityFullPenalty(prefs, event_type, scenario) ==
    IF Truthy(scenario)
    THEN [prefs EXCEPT !.scenario_affinity =
            DictAdd(@, scenario,
                    IF event_type \in {"like", "click", "view"} THEN 2
                    ELSE IF event_type = "dislike" THEN -2
                    ELSE 0)]
    ELSE prefs

\* the scenario_affinity branch (values doubled: +1 is 2, -0.5 is -1)
LearnAffinity(prefs, event_type, scenario) ==
    IF Truthy(scenario)
    THEN [prefs EXCEPT !.scenario_affinity =
            DictAdd(@, scenario,
                    IF event_type \in {"like", "click", "view"} THEN 2
                    ELSE IF event_type = "dislike" THEN -1
                    ELSE 0)]
    ELSE prefs

\* the session_end branch; duration is an Optional[int] and "None > 0" raises
SessionRaises(event_type, duration) ==
    event_type = "session_end" /\ duration = NoInt

LearnSession(prefs, event_type, duration) ==
    IF event_type = "session_end" /\ duration # NoInt /\ IntOf(duration) > 0
    THEN LET total_sessions == prefs.total_sessions + 1
             current_avg == prefs.avg_session_duration_ms
         IN [prefs EXCEPT
                !.avg_session_duration_ms =
                    ((current_avg * prefs.total_sessions) + IntOf(duration))
                        \div total_sessions,
                !.total_sessions = total_sessions]
    ELSE prefs

\* _update_preferences_from_event(user, event): the user after the call and
\* whether the call raised (the dict is updated in place, so what was
\* written before the exception stays)
update_preferences_from_event(user, event, t) ==
    LET event_type == EventGet(event, "event_type", None)
        category == EventGet(event, "category", None)
        content_type == EventGet(event, "content_type", None)
        source == EventGet(event, "source", None)
        scenario == EventGet(event, "scenario", None)
        p1 == LearnCategories(user.preferences, event_type, category)
        p2 == IF event_type \in {"view", "click"} /\ Truthy(content_type)
              THEN [p1 EXCEPT !.preferred_content_types =
                        AppendRecent(@, content_type, ContentTypesCap)]
              ELSE p1
        p3 == IF Truthy(source) /\ event_type \in {"view", "click", "like"}
              THEN [p2 EXCEPT !.preferred_sources =
                        AppendRecent(@, source, SourcesCap)]
              ELSE p2
        p4 == LearnAffinity(p3, event_type, scenario)
        event_time == EventGet(event, "timestamp", t)
        hour == HourOf(event_time)
        p5 == [p4 EXCEPT !.active_hours = AppendHour(@, hour)]
        duration == EventGet(event, "duration_ms", SomeInt(0))
        p6 == LearnSession(p5, event_type, duration)
    IN [user |-> [user EXCEPT !.preferences = p6],
        raised |-> SessionRaises(event_type, duration)]

\* a buffer that drops the newest events instead of the oldest
KeepOldest(events) == FirstN(events, RecentEventsCap)

\* "if len(recent_events) > 100: recent_events = recent_events[-100:]"
KeepRecent(events) ==
    IF Len(events) > RecentEventsCap THEN LastN(events, RecentEventsCap)
    ELSE events

\* an iteration that counts only the events the buffer still holds
AddOneEventCountingBuffer(acc, event, t) ==
    LET u1 == [acc.user EXCEPT
                  !.recent_events = KeepRecent(Append(@, event)),
                  !.total_events = Min(@ + 1, RecentEventsCap)]
        counts == DictAdd(acc.counts, EventGet(event, "event_type", "unknown"), 1)
        learned == update_preferences_from_event(u1, event, t)
    IN [user |-> learned.user, counts |-> counts, raised |-> learned.raised,
        processed |-> acc.processed + 1]

\* one iteration of the loop of add_events
AddOneEvent(acc, event, t) ==
    LET u1 == [acc.user EXCEPT
                  !.recent_events = KeepRecent(Append(@, event)),
                  !.total_events = @ + 1]
        counts == DictAdd(acc.counts, EventGet(event, "event_type", "unknown"), 1)
        learned == update_preferences_from_event(u1, event, t)
    IN [user |-> learned.user, counts |-> counts, raised |-> learned.raised,
        processed |-> acc.processed + 1]

\* the loop of add_events over events[lo..hi], left at the first event that
\* raises; the range is walked in order, split in halves to keep the
\* evaluation shallow
RECURSIVE AddEventLoop(_, _, _, _, _)
AddEventLoop(acc, events, lo, hi, t) ==
    IF acc.raised \/ lo > hi THEN acc
    ELSE IF lo = hi THEN AddOneEvent(acc, events[lo], t)
    ELSE LET mid == (lo + hi) \div 2
         IN AddEventLoop(AddEventLoop(acc, events, lo, mid, t),
                         events, mid + 1, hi, t)

\* add_events(fingerprint_id, events): the store and the event counts after
\* the call, how many events the loop took up, and either the returned
\* count or the exception
add_events(st, counts, fingerprint_id, events, t) ==
    LET st1 == get_or_create_user(st, fingerprint_id, t)
        done == AddEventLoop([user |-> st1[fingerprint_id], counts |-> counts,
                              raised |-> FALSE, processed |-> 0],
                             events, 1, Len(events), t)
    IN IF done.raised
       THEN [store |-> [st1 EXCEPT ![fingerprint_id] = done.user],
             counts |-> done.counts, processed |-> done.processed,
             raised |-> TRUE, returned |-> 0]
       ELSE [store |-> [st1 EXCEPT ![fingerprint_id] =
                            [done.user EXCEPT !.updated_at = t]],
             counts |-> done.counts, processed |-> done.processed,
             raised |-> FALSE, returned |-> Len(events)]

\* a feedback that is also counted as an event
record_feedback_counting_event(st, aggregates, fingerprint_id, scenario, feedback, t) ==
    LET st1 == get_or_create_user(st, fingerprint_id, t)
        user == st1[fingerprint_id]
        u1 == IF feedback = "like" THEN [user EXCEPT !.total_likes = @ + 1]
              ELSE IF feedback = "dislike" THEN [user EXCEPT !.total_dislikes = @ + 1]
              ELSE user
        a1 == IF scenario \in DOMAIN aggregates THEN aggregates
              ELSE aggregates @@ (scenario :> [likes |-> 0, dislikes |-> 0])
        a2 == IF feedback = "like" THEN [a1 EXCEPT ![scenario].likes = @ + 1]
              ELSE IF feedback = "dislike" THEN [a1 EXCEPT ![scenario].dislikes = @ + 1]
              ELSE a1
    IN [store |-> [st1 EXCEPT ![fingerprint_id] = [u1 EXCEPT !.total_events = @ + 1]],
        aggregates |-> a2]

\* a recorder whose aggregate takes every polarity but a dislike for a like
record_feedback_lenient(st, aggregates, fingerprint_id, scenario, feedback, t) ==
    LET st1 == get_or_create_user(st, fingerprint_id, t)
        user == st1[fingerprint_id]
        u1 == IF feedback = "like" THEN [user EXCEPT !.total_likes = @ + 1]
              ELSE IF feedback = "dislike" THEN [user EXCEPT !.total_dislikes = @ + 1]
              ELSE user
        a1 == IF scenario \in DOMAIN aggregates THEN aggregates
              ELSE aggregates @@ (scenario :> [likes |-> 0, dislikes |-> 0])
        a2 == IF feedback = "dislike" THEN [a1 EXCEPT ![scenario].dislikes = @ + 1]
              ELSE [a1 EXCEPT ![scenario].likes = @ + 1]
    IN [store |-> [st1 EXCEPT ![fingerprint_id] = u1], aggregates |-> a2]

\* record_feedback(fingerprint_id, scenario, feedback)
record_feedback(st, aggregates, fingerprint_id, scenario, feedback, t) ==
    LET st1 == get_or_create_user(st, fingerprint_id, t)
        user == st1[fingerprint_id]
        u1 == IF feedback = "like" THEN [user EXCEPT !.total_likes = @ + 1]
              ELSE IF feedback = "dislike" THEN [user EXCEPT !.total_dislikes = @ + 1]
              ELSE user
        a1 == IF scenario \in DOMAIN aggregates THEN aggregates
              ELSE aggregates @@ (scenario :> [likes |-> 0, dislikes |-> 0])
        a2 == IF feedback = "like" THEN [a1 EXCEPT ![scenario].likes = @ + 1]
              ELSE IF feedback = "dislike" THEN [a1 EXCEPT ![scenario].dislikes = @ + 1]
              ELSE a1
    IN [store |-> [st1 EXCEPT ![fingerprint_id] = u1], aggregates |-> a2]

\* a match that counts like a positive event
update_scenario_full_point(st, fingerprint_id, scenario, t) ==
    LET st1 == get_or_create_user(st, fingerprint_id, t)
        user == st1[fingerprint_id]
        u1 == [user EXCEPT
                 !.last_scenario = scenario,
                 !.scenario_history =
                    LastN(Append(@, scenario), ScenarioHistoryCap),
                 !.preferences.scenario_affinity = DictAdd(@, scenario, 2)]
    IN [st1 EXCEPT ![fingerprint_id] = u1]

\* a recorder that keeps the history and forgets last_scenario
update_scenario_history_only(st, fingerprint_id, scenario, t) ==
    LET st1 == get_or_create_user(st, fingerprint_id, t)
        user == st1[fingerprint_id]
        u1 == [user EXCEPT
                 !.scenario_history =
                    LastN(Append(@, scenario), ScenarioHistoryCap),
                 !.preferences.scenario_affinity = DictAdd(@, scenario, 1)]
    IN [st1 EXCEPT ![fingerprint_id] = u1]

\* a recorder that leaves the fallback id out of the history
update_scenario_personas_only(st, fingerprint_id, scenario, t) ==
    LET st1 == get_or_create_user(st, fingerprint_id, t)
        user == st1[fingerprint_id]
        u1 == [user EXCEPT
                 !.last_scenario = scenario,
                 !.scenario_history =
                    LastN(Append(@, scenario), ScenarioHistoryCap),
                 !.preferences.scenario_affinity = DictAdd(@, scenario, 1)]
    IN IF scenario = "general" THEN st1 ELSE [st1 EXCEPT ![fingerprint_id] = u1]

\* update_scenario(fingerprint_id, scenario); the +0.5 boost is 1 doubled
update_scenario(st, fingerprint_id, scenario, t) ==
    LET st1 == get_or_create_user(st, fingerprint_id, t)
        user == st1[fingerprint_id]
        u1 == [user EXCEPT
                 !.last_scenario = scenario,
                 !.scenario_history =
                    LastN(Append(@, scenario), ScenarioHistoryCap),
                 !.preferences.scenario_affinity = DictAdd(@, scenario, 1)]
    IN [st1 EXCEPT ![fingerprint_id] = u1]

\* a journey day rounded to the nearest day
calculate_journey_day_rounded(st, fingerprint_id, t) ==
    LET st1 == get_or_create_user(st, fingerprint_id, t)
        first_seen == st1[fingerprint_id].first_seen_at
        days == (t - first_seen + (MsPerDay \div 2)) \div MsPerDay
    IN [st1 EXCEPT ![fingerprint_id].journey_day = days]

\* calculate_journey_day(fingerprint_id): the store after the call (the
\* value returned is the journey_day it leaves on the record)
calculate_journey_day(st, fingerprint_id, t) ==
    LET st1 == get_or_create_user(st, fingerprint_id, t)
        first_seen == st1[fingerprint_id].first_seen_at
        days == (t - first_seen) \div MsPerDay
    IN [st1 EXCEPT ![fingerprint_id].journey_day = days]

\* a stage chain that moves on a day early
SummaryStageEarly(journey_day) ==
    IF journey_day < 3 THEN "newcomer"
    ELSE IF journey_day < 10 THEN "explorer"
    ELSE IF journey_day < 20 THEN "regular"
    ELSE "partner"

\* the stage chain inside get_intelligence_summary
SummaryStage(journey_day) ==
    IF journey_day <= 3 THEN "newcomer"
    ELSE IF journey_day <= 10 THEN "explorer"
    ELSE IF journey_day <= 20 THEN "regular"
    ELSE "partner"

\* get_journey_stage(day)[0]
get_journey_stage(day) ==
    IF day <= 3 THEN "newcomer"
    ELSE IF day <= 10 THEN "explorer"
    ELSE IF day <= 20 THEN "regular"
    ELSE "partner"

\* an engagement that counts events per session
EngagementPerSession(user) ==
    Min(1000, (3 * user.total_events) \div (user.preferences.total_sessions + 1)
                + 15 * user.total_likes)

\* the engagement formula in thousandths:
\* (events/100)*0.3 + (likes/20)*0.3 + (sessions/10)*0.4, capped at 1.0
Engagement(user) ==
    Min(1000, 3 * user.total_events + 15 * user.total_likes
                + 40 * user.preferences.total_sessions)

\* The engagement is a double, and the double may lie below (-1), on (0) or
\* above (1) the exact sum. That shows only where the exact sum is halfway
\* between two hundredths or on a level threshold, and there the thousandths
\* do not tell which of the three it is.
FloatErrors(e) ==
    IF e % 10 = 5 \/ e \in {300, 700} THEN {-1, 0, 1} ELSE {0}

\* round(engagement, 2) in hundredths: to the nearest hundredth, a half
\* going where the double lies (to the even neighbour if it is the half)
RoundedEngagement(e, err) ==
    LET q == e \div 10
        r == e % 10
    IN IF r > 5 \/ (r = 5 /\ (err > 0 \/ (err = 0 /\ q % 2 = 1)))
       THEN q + 1 ELSE q

\* the level chain, on the engagement before it is rounded
PersonalizationLevel(e, err) ==
    IF e > 700 \/ (e = 700 /\ err > 0) THEN "high"
    ELSE IF e > 300 \/ (e = 300 /\ err > 0) THEN "medium"
    ELSE "low"

\* the insight strings, by their kind
Insights(user) ==
    LET prefs == user.preferences
        found ==
            (IF prefs.liked_categories # <<>> THEN <<"Loves">> ELSE <<>>)
         \o (IF prefs.preferred_sources # <<>> THEN <<"Prefers">> ELSE <<>>)
         \o (IF Range(prefs.active_hours) \cap {5, 6, 7, 8, 9} # {}
             THEN <<"Early bird">> ELSE <<>>)
         \o (IF Range(prefs.active_hours) \cap {22, 23, 0, 1, 2} # {}
             THEN <<"Night owl">> ELSE <<>>)
         \o (IF user.total_events > 50 THEN <<"Power user">> ELSE <<>>)
    IN IF found = <<>> THEN <<"Getting to know you">> ELSE found

\* the float errors the engagement of this id may carry
EngagementErrors(st, fingerprint_id, t) ==
    FloatErrors(Engagement(get_or_create_user(st, fingerprint_id, t)[fingerprint_id]))

\* a summary that also stamps the record it read
get_intelligence_summary_stamping(st, fingerprint_id, t, err) ==
    LET st1 == calculate_journey_day(get_or_create_user(st, fingerprint_id, t),
                                     fingerprint_id, t)
        user == st1[fingerprint_id]
        engagement == Engagement(user)
    IN [store |-> [st1 EXCEPT ![fingerprint_id].updated_at = t],
        summary |->
           [journey_day |-> user.journey_day,
            stage |-> SummaryStage(user.journey_day),
            insights |-> Insights(user),
            top_categories |-> FirstN(user.preferences.liked_categories, 3),
            top_content_types |-> FirstN(user.preferences.preferred_content_types, 3),
            engagement_score |-> RoundedEngagement(engagement, err),
            personalization_level |-> PersonalizationLevel(engagement, err)]]

\* get_intelligence_summary(fingerprint_id): the store after the call and
\* the summary it returns
get_intelligence_summary(st, fingerprint_id, t, err) ==
    LET st1 == calculate_journey_day(get_or_create_user(st, fingerprint_id, t),
                                     fingerprint_id, t)
        user == st1[fingerprint_id]
        engagement == Engagement(user)
    IN [store |-> st1,
        summary |->
           [journey_day |-> user.journey_day,
            stage |-> SummaryStage(user.journey_day),
            insights |-> Insights(user),
            top_categories |-> FirstN(user.preferences.liked_categories, 3),
            top_content_types |-> FirstN(user.preferences.preferred_content_types, 3),
            engagement_score |-> RoundedEngagement(engagement, err),
            personalization_level |-> PersonalizationLevel(engagement, err)]]

-----------------------------------------------------------------------------
(* enhance_suggestions_with_learning *)

\* str.lower() on the source names that occur
lower(s) ==
    CASE s = "YouTube" -> "youtube"
      [] s = "YOUTUBE" -> "youtube"
      [] s = "Spotify" -> "spotify"
      [] s = "Drik Panchang" -> "drik panchang"
      [] s = "Khatabook" -> "khatabook"
      [] s = "JioSaavn" -> "jiosaavn"
      [] s = "Khan Academy" -> "khan academy"
      [] s = "Unacademy" -> "unacademy"
      [] s = "Prime Video" -> "prime video"
      [] s = "Kindle" -> "kindle"
      [] s = "Inshorts" -> "inshorts"
      [] s = "Google" -> "google"
      [] s = "Headspace" -> "headspace"
      [] s = "LinkedIn" -> "linkedin"
      [] s = "Starbucks" -> "starbucks"
      [] OTHER -> s

\* category_mapping.get(content_type, "general")
category_mapping(content_type) ==
    CASE content_type = "video" -> "entertainment"
      [] content_type = "song" -> "music"
      [] content_type = "recipe" -> "cooking"
      [] content_type = "podcast" -> "education"
      [] content_type = "article" -> "reading"
      [] content_type = "app" -> "utility"
      [] OTHER -> "general"

\* a score in which a liked category is not looked up among the disliked
AdjustedScoreLikedOnly(suggestion, prefs) ==
    LET category == category_mapping(lower(suggestion.specificContent.type))
        source == lower(suggestion.specificContent.source)
        preferred_sources == {lower(prefs.preferred_sources[i]) :
                                 i \in 1..Len(prefs.preferred_sources)}
    IN suggestion.priority
       + (IF category \in Range(prefs.liked_categories) THEN -2
          ELSE IF category \in Range(prefs.disliked_categories) THEN 5 ELSE 0)
       + (IF source \in preferred_sources THEN -1 ELSE 0)

\* the score the loop gives one suggestion
AdjustedScore(suggestion, prefs) ==
    LET category == category_mapping(lower(suggestion.specificContent.type))
        source == lower(suggestion.specificContent.source)
        preferred_sources == {lower(prefs.preferred_sources[i]) :
                                 i \in 1..Len(prefs.preferred_sources)}
    IN suggestion.priority
       + (IF category \in Range(prefs.liked_categories) THEN -2 ELSE 0)
       + (IF category \in Range(prefs.disliked_categories) THEN 5 ELSE 0)
       + (IF source \in preferred_sources THEN -1 ELSE 0)

\* a sort that puts the later of two equal keys first
RECURSIVE UnstableOrder(_, _)
UnstableOrder(keys, left) ==
    IF left = {} THEN <<>>
    ELSE LET i == CHOOSE a \in left :
                    \A b \in left : keys[a] < keys[b] \/ (keys[a] = keys[b] /\ a >= b)
         IN <<i>> \o UnstableOrder(keys, left \ {i})

\* list.sort(key=...) as positions: the positions of keys in ascending key
\* order, equal keys in their original order
RECURSIVE StableOrder(_, _)
StableOrder(keys, left) ==
    IF left = {} THEN <<>>
    ELSE LET i == CHOOSE a \in left :
                    \A b \in left : keys[a] < keys[b] \/ (keys[a] = keys[b] /\ a <= b)
         IN <<i>> \o StableOrder(keys, left \ {i})

\* a ranking that numbers the priorities from 0
enhance_suggestions_from_zero(suggestions, user_intelligence) ==
    LET prefs == user_intelligence.preferences
        keys == [j \in 1..Len(suggestions) |-> AdjustedScore(suggestions[j], prefs)]
        order == StableOrder(keys, 1..Len(suggestions))
        rank(j) == CHOOSE i \in 1..Len(order) : order[i] = j
    IN [result |-> [i \in 1..Len(order) |->
                        [suggestions[order[i]] EXCEPT !.priority = i - 1]],
        suggestions |-> [j \in 1..Len(suggestions) |->
                        [suggestions[j] EXCEPT !.priority = rank(j) - 1]]]

\* enhance_suggestions_with_learning(suggestions, user_intelligence):
\* the list returned, and the input list afterwards (its dicts are the ones
\* whose "priority" the function overwrites)
enhance_suggestions_with_learning(suggestions, user_intelligence) ==
    LET prefs == user_intelligence.preferences
        keys == [j \in 1..Len(suggestions) |-> AdjustedScore(suggestions[j], prefs)]
        order == StableOrder(keys, 1..Len(suggestions))
        rank(j) == CHOOSE i \in 1..Len(order) : order[i] = j
    IN [result |-> [i \in 1..Len(order) |->
                        [suggestions[order[i]] EXCEPT !.priority = i]],
        suggestions |-> [j \in 1..Len(suggestions) |->
                        [suggestions[j] EXCEPT !.priority = rank(j)]]]

-----------------------------------------------------------------------------
(* Operations.  Each action is one call, from entry to return; request and *)
(* response record the call and what the caller got back.                  *)

Returned(value) == [raised |-> FALSE, value |-> value]

Raised(error) == [raised |-> TRUE, value |-> error]

\* enhance_suggestions_with_learning(suggestions, user_intelligence),
\* called on its own; the caller gets the list back and finds its own list
\* with the priorities written over
EnhanceSuggestions(suggestions, user_intelligence) ==
    LET r == enhance_suggestions_with_learning(suggestions, user_intelligence)
    IN /\ request' = [op |-> "enhance_suggestions_with_learning",
                      suggestions |-> suggestions,
                      user_intelligence |-> user_intelligence]
       /\ response' = Returned(r)
       /\ UNCHANGED <<SCENARIOS, store, store_aggregates, event_counts,
                      feedback_aggregates, now, matched, applied, scope>>

\* match_scenario(signals), called on its own
MatchScenario(signals) ==
    /\ request' = [op |-> "match_scenario", signals |-> signals]
    /\ response' = Returned(match_scenario(SCENARIOS, signals))
    /\ UNCHANGED <<SCENARIOS, store, store_aggregates, event_counts,
                   feedback_aggregates, now, matched, applied, scope>>

\* intelligence_store.get_or_create_user(fingerprint_id)
GetOrCreateUser(fingerprint_id) ==
    LET st1 == get_or_create_user(store, fingerprint_id, now)
    IN /\ store' = st1
       /\ request' = [op |-> "get_or_create_user", fingerprint_id |-> fingerprint_id]
       /\ response' = Returned(st1[fingerprint_id])
       /\ UNCHANGED <<SCENARIOS, store_aggregates, event_counts,
                      feedback_aggregates, now, matched, applied, scope>>

\* intelligence_store.add_events(fingerprint_id, events)
AddEvents(fingerprint_id, events) ==
    LET r == add_events(store, event_counts, fingerprint_id, events, now)
    IN /\ store' = r.store
       /\ event_counts' = r.counts
       /\ request' = [op |-> "add_events", fingerprint_id |-> fingerprint_id,
                      events |-> events]
       /\ response' = IF r.raised THEN Raised("TypeError") ELSE Returned(r.returned)
       /\ applied' = DictAdd(applied, fingerprint_id, r.processed)
       /\ UNCHANGED <<SCENARIOS, store_aggregates, feedback_aggregates, now,
                      matched, scope>>

\* intelligence_store.record_feedback(fingerprint_id, scenario, feedback)
RecordFeedback(fingerprint_id, scenario, feedback) ==
    LET r == record_feedback(store, store_aggregates, fingerprint_id, scenario,
                             feedback, now)
    IN /\ store' = r.store
       /\ store_aggregates' = r.aggregates
       /\ request' = [op |-> "record_feedback", fingerprint_id |-> fingerprint_id,
                      scenario |-> scenario, feedback |-> feedback]
       /\ response' = Returned(None)
       /\ UNCHANGED <<SCENARIOS, event_counts, feedback_aggregates, now,
                      matched, applied, scope>>

\* intelligence_store.update_scenario(fingerprint_id, scenario)
UpdateScenario(fingerprint_id, scenario) ==
    /\ store' = update_scenario(store, fingerprint_id, scenario, now)
    /\ request' = [op |-> "update_scenario", fingerprint_id |-> fingerprint_id,
                   scenario |-> scenario]
    /\ response' = Returned(None)
    /\ UNCHANGED <<SCENARIOS, store_aggregates, event_counts,
                   feedback_aggregates, now, matched, applied, scope>>

\* intelligence_store.calculate_journey_day(fingerprint_id)
CalculateJourneyDay(fingerprint_id) ==
    LET st1 == calculate_journey_day(store, fingerprint_id, now)
    IN /\ store' = st1
       /\ request' = [op |-> "calculate_journey_day",
                      fingerprint_id |-> fingerprint_id]
       /\ response' = Returned(st1[fingerprint_id].journey_day)
       /\ UNCHANGED <<SCENARIOS, store_aggregates, event_counts,
                      feedback_aggregates, now, matched, applied, scope>>

\* intelligence_store.get_intelligence_summary(fingerprint_id)
GetIntelligenceSummary(fingerprint_id) ==
    \E err \in EngagementErrors(store, fingerprint_id, now) :
    LET r == get_intelligence_summary(store, fingerprint_id, now, err)
    IN /\ store' = r.store
       /\ request' = [op |-> "get_intelligence_summary",
                      fingerprint_id |-> fingerprint_id]
       /\ response' = Returned(r.summary)
       /\ UNCHANGED <<SCENARIOS, store_aggregates, event_counts,
                      feedback_aggregates, now, matched, applied, scope>>

\* POST /v1/event: request.events are UserEvent models, dumped to dicts
\* that carry every field of the model
track_events(fingerprint_id, events) ==
    LET r == add_events(store, event_counts, fingerprint_id, events, now)
    IN /\ store' = r.store
       /\ event_counts' = r.counts
       /\ request' = [op |-> "track_events", fingerprint_id |-> fingerprint_id,
                      events |-> events]
       /\ response' = IF r.raised THEN Raised("TypeError")
                      ELSE Returned([success |-> TRUE, events_tracked |-> r.returned])
       /\ applied' = DictAdd(applied, fingerprint_id, r.processed)
       /\ UNCHANGED <<SCENARIOS, store_aggregates, feedback_aggregates, now,
                      matched, scope>>

\* a feedback event that does not name its persona
FeedbackEventUnattributed(feedback) ==
    [event_type |-> feedback.feedback,
     category |-> feedback.category,
     content_type |-> feedback.content_type,
     source |-> feedback.source,
     scenario |-> None,
     timestamp |-> feedback.timestamp]

\* the event submit_feedback builds from a FeedbackRequest
FeedbackEvent(feedback) ==
    [event_type |-> feedback.feedback,
     category |-> feedback.category,
     content_type |-> feedback.content_type,
     source |-> feedback.source,
     scenario |-> feedback.scenario,
     timestamp |-> feedback.timestamp]

\* aggregates[scenario] += 1 on the legacy module-level dict
LegacyAggregate(aggregates, scenario, feedback) ==
    LET a1 == IF scenario \in DOMAIN aggregates THEN aggregates
              ELSE aggregates @@ (scenario :> [likes |-> 0, dislikes |-> 0])
    IN IF feedback = "like" THEN [a1 EXCEPT ![scenario].likes = @ + 1]
       ELSE IF feedback = "dislike" THEN [a1 EXCEPT ![scenario].dislikes = @ + 1]
       ELSE a1

\* POST /v1/feedback
submit_feedback(feedback) ==
    LET scenario == feedback.scenario
        learning == Truthy(feedback.fingerprint_id)
        rf == record_feedback(store, store_aggregates, feedback.fingerprint_id,
                              scenario, feedback.feedback, now)
        ae == add_events(rf.store, event_counts, feedback.fingerprint_id,
                         <<FeedbackEvent(feedback)>>, now)
        aggregates1 == IF learning THEN rf.aggregates ELSE store_aggregates
        scenario_stats == IF scenario \in DOMAIN aggregates1 THEN aggregates1[scenario]
                          ELSE [likes |-> 0, dislikes |-> 0]
    IN /\ store' = IF learning THEN ae.store ELSE store
       /\ store_aggregates' = aggregates1
       /\ event_counts' = IF learning THEN ae.counts ELSE event_counts
       /\ feedback_aggregates' =
            IF learning THEN feedback_aggregates
            ELSE LegacyAggregate(feedback_aggregates, scenario, feedback.feedback)
       /\ request' = [op |-> "submit_feedback", feedback |-> feedback]
       /\ response' = Returned([success |-> TRUE,
                                total_likes |-> scenario_stats.likes,
                                total_dislikes |-> scenario_stats.dislikes,
                                learning_applied |-> learning])
       /\ applied' = IF learning
                     THEN DictAdd(applied, feedback.fingerprint_id, ae.processed)
                     ELSE applied
       /\ UNCHANGED <<SCENARIOS, now, matched, scope>>

\* GET /v1/user/{fingerprint_id}/intelligence
get_user_intelligence(fingerprint_id) ==
    \E err \in EngagementErrors(store, fingerprint_id, now) :
    LET r == get_intelligence_summary(store, fingerprint_id, now, err)
        user == r.store[fingerprint_id]
    IN /\ store' = r.store
       /\ request' = [op |-> "get_user_intelligence",
                      fingerprint_id |-> fingerprint_id]
       /\ response' = Returned([success |-> TRUE,
                                fingerprint_id |-> fingerprint_id,
                                summary |-> r.summary,
                                preferences |-> user.preferences,
                                total_events |-> user.total_events,
                                total_likes |-> user.total_likes,
                                total_dislikes |-> user.total_dislikes,
                                scenario_history |-> LastN(user.scenario_history, 5)])
       /\ UNCHANGED <<SCENARIOS, store_aggregates, event_counts,
                      feedback_aggregates, now, matched, applied, scope>>

\* min(1.0, confidence + affinity * 0.1), affinity being stored doubled
BoostedConfidence(confidence, affinity2) ==
    IF affinity2 > 0
    THEN LET sum == Frac(20 * confidence.num + affinity2 * confidence.den,
                         20 * confidence.den)
         IN IF FracLT(Frac(1, 1), sum) THEN Frac(1, 1) ELSE sum
    ELSE confidence

\* SCENARIOS.get(scenario_id, SCENARIOS["weekend_family"]) as a position
ScenarioOrFallback(cat, scenario_id) ==
    IF scenario_id \in ScenarioIds(cat) THEN ScenarioIndex(cat, scenario_id)
    ELSE ScenarioIndex(cat, "weekend_family")

\* the session_start event initialize_context records
SessionStartEvent(t) == [event_type |-> "session_start", timestamp |-> t]

\* POST /v1/init with no OPENAI_API_KEY in the environment, so that the
\* base suggestions of the matched scenario are the candidates
initialize_context(signals) ==
    \E err \in IF Truthy(signals.fingerprint_id)
                THEN EngagementErrors(store, signals.fingerprint_id, now)
                ELSE {0} :
    LET fid == signals.fingerprint_id
        known == Truthy(fid)
        st1 == IF known
               THEN calculate_journey_day(get_or_create_user(store, fid, now), fid, now)
               ELSE store
        journey_day == IF known THEN Max(signals.journey_day, st1[fid].journey_day)
                       ELSE signals.journey_day
        sm == get_intelligence_summary(st1, fid, now, err)
        ae == add_events(sm.store, event_counts, fid, <<SessionStartEvent(now)>>, now)
        m == match_scenario(SCENARIOS, signals)
        affinity == IF known /\ m.scenario_id
                          \in DOMAIN ae.store[fid].preferences.scenario_affinity
                    THEN ae.store[fid].preferences.scenario_affinity[m.scenario_id]
                    ELSE 0
        confidence == BoostedConfidence(m.confidence, affinity)
        pos == ScenarioOrFallback(SCENARIOS, m.scenario_id)
        st3 == IF known THEN update_scenario(ae.store, fid, m.scenario_id, now)
               ELSE store
        raw_suggestions == SCENARIOS[pos].suggestions
        enhanced == enhance_suggestions_with_learning(raw_suggestions, st3[fid])
        ranked == IF known THEN enhanced.result ELSE raw_suggestions
    IN /\ store' = st3
       /\ event_counts' = IF known THEN ae.counts ELSE event_counts
       /\ SCENARIOS' = IF known
                       THEN [SCENARIOS EXCEPT ![pos].suggestions = enhanced.suggestions]
                       ELSE SCENARIOS
       /\ request' = [op |-> "initialize_context", signals |-> signals]
       /\ response' = Returned(
             [user_segment |-> m.scenario_id,
              matched_scenario |-> m.scenario_id,
              match |-> m,
              confidence |-> confidence,
              suggestions |-> FirstN(ranked, 3),
              journey |-> [day |-> journey_day, stage |-> get_journey_stage(journey_day)],
              intelligence_summary |-> IF known THEN <<sm.summary>> ELSE <<>>])
       /\ applied' = IF known THEN DictAdd(applied, fid, ae.processed) ELSE applied
       /\ UNCHANGED <<store_aggregates, feedback_aggregates, now, matched, scope>>

\* the wall clock moves on
Tick(delta) ==
    /\ now' = now + delta
    /\ UNCHANGED <<SCENARIOS, store, store_aggregates, event_counts,
                   feedback_aggregates, request, response, matched, applied, scope>>

-----------------------------------------------------------------------------
(* Initial states and input universes *)

NoCall == [op |-> "none"]

\* the process right after start-up, with a given catalog; probes are the
\* snapshots match_scenario is asked about before any request is served
Started(catalog, universe, probes) ==
    /\ SCENARIOS = catalog
    /\ store = EmptyDict
    /\ store_aggregates = EmptyDict
    /\ event_counts = EmptyDict
    /\ feedback_aggregates = EmptyDict
    /\ now = 0
    /\ request = NoCall
    /\ response = Returned(None)
    /\ matched = [signals \in probes |-> match_scenario(catalog, signals)]
    /\ applied = EmptyDict
    /\ scope = universe

-----------------------------------------------------------------------------
(* The matcher on its own: every catalog of up to MaxCatalog personas, in  *)
(* every order, against every snapshot of MatchSnapshots                   *)

\* a catalog entry without triggers
untriggered == PersonaDef("untriggered", <<>>, <<>>)

\* a catalog entry with a trigger name check_trigger does not know
unresolvable == PersonaDef("unresolvable", <<"morning", "full_moon">>, <<>>)

PersonaPool ==
    {morning_devotee, evening_merchant, busy_professional, untriggered, unresolvable}

CatalogPool == Arrangements(PersonaPool, MaxCatalog) \cup {ShippedCatalog}

MatchSnapshots ==
    {[DefaultSignals EXCEPT
        !.context.is_morning = morning,
        !.context.is_evening = evening,
        !.context.is_weekend = weekend,
        !.context.language = language,
        !.environment.brightness = brightness,
        !.network.type = network,
        !.social.upcoming_events_count = upcoming,
        !.questionnaire.primary_use = use] :
     morning \in BOOLEAN, evening \in BOOLEAN,
     weekend \in BOOLEAN, language \in {"en", "hi"}, brightness \in {2, 5},
     network \in {"UNKNOWN", "CELLULAR"},
     upcoming \in {NoInt, SomeInt(2)}, use \in {None, "spiritual", "business"}}

InitMatch == \E catalog \in CatalogPool : Started(catalog, "match", {})

\* one call per run: the catalog and the snapshot are the inputs
NextMatch ==
    /\ request = NoCall
    /\ \E signals \in MatchSnapshots : MatchScenario(signals)

SpecMatch == InitMatch /\ [][NextMatch]_vars

\* what a claim about match_scenario looks at: a call that has returned
MatchCalled == request.op = "match_scenario"

\* the personas whose score no other persona's score exceeds
TopScorers(cat, signals) ==
    {i \in Scored(cat) :
        \A j \in Scored(cat) :
            TriggerHits(cat[j], signals) * Len(cat[i].triggers)
                <= TriggerHits(cat[i], signals) * Len(cat[j].triggers)}

\* the earliest of them in definition order
FirstTop(cat, signals) ==
    CHOOSE i \in TopScorers(cat, signals) : \A j \in TopScorers(cat, signals) : i <= j

\* the maximum score, as hits over triggers of a top scorer
TopHits(cat, signals) == TriggerHits(cat[FirstTop(cat, signals)], signals)

TopCount(cat, signals) == Len(cat[FirstTop(cat, signals)].triggers)

\* the maximum score is at least 0.4: hits / count >= 2 / 5
TopReachesThreshold(cat, signals) ==
    5 * TopHits(cat, signals) >= 2 * TopCount(cat, signals)

\* C1 as stated: whenever two or more personas share the maximum score,
\* match_scenario returns the one that comes first in the catalog.
C1_TieReturnsEarliest ==
    (MatchCalled /\ Cardinality(TopScorers(SCENARIOS, request.signals)) >= 2)
        => response.value.scenario_id
              = SCENARIOS[FirstTop(SCENARIOS, request.signals)].id

\* C1 amended: whenever two or more personas share a maximum score of at
\* least 0.4, match_scenario returns the one that comes first in the
\* catalog; when the shared maximum is below 0.4 it returns "general".
C1_TieAboveThresholdReturnsEarliest ==
    (MatchCalled /\ Cardinality(TopScorers(SCENARIOS, request.signals)) >= 2)
        => response.value.scenario_id
              = IF TopReachesThreshold(SCENARIOS, request.signals)
                THEN SCENARIOS[FirstTop(SCENARIOS, request.signals)].id
                ELSE FallbackId

\* a tie at 0.5 between two personas, the later-defined one not returned
C1_Witness ==
    /\ MatchCalled
    /\ Cardinality(TopScorers(SCENARIOS, request.signals)) >= 2
    /\ TopReachesThreshold(SCENARIOS, request.signals)
    /\ FirstTop(SCENARIOS, request.signals) > 1
    /\ response.value.scenario_id = SCENARIOS[FirstTop(SCENARIOS, request.signals)].id

\* C2: with s the maximum score, s < 0.4 gives ("general", s) and s >= 0.4
\* gives (a persona scoring s, s); no persona id comes with less than 0.4.
C2_ThresholdAndConfidence ==
    (MatchCalled /\ Scored(SCENARIOS) # {})
        => LET hits == TopHits(SCENARIOS, request.signals)
               count == TopCount(SCENARIOS, request.signals)
               conf == response.value.confidence
               id == response.value.scenario_id
           IN /\ conf.num * count = hits * conf.den
              /\ (5 * hits < 2 * count) => id = FallbackId
              /\ (5 * hits >= 2 * count) =>
                    \E i \in TopScorers(SCENARIOS, request.signals) : id = SCENARIOS[i].id
              /\ (id # FallbackId) => 5 * conf.num >= 2 * conf.den

\* a sub-threshold match whose computed score, 1/3, is the confidence
C2_Witness ==
    /\ MatchCalled
    /\ response.value.scenario_id = FallbackId
    /\ response.value.confidence = Frac(1, 3)
    /\ TopHits(SCENARIOS, request.signals) = 1

HasUnknownTrigger(persona) ==
    \E k \in 1..Len(persona.triggers) : persona.triggers[k] \notin RecognisedTriggers

\* C29: an unrecognised trigger name is false for every snapshot and raises
\* nothing: it counts in the denominator only, so its persona scores
\* strictly below 1; a persona with zero triggers is never selected.
C29_UnknownTriggerNeverHolds ==
    MatchCalled =>
        /\ ~response.raised
        /\ \A i \in 1..Len(SCENARIOS) :
              LET persona == SCENARIOS[i]
                  chosen == response.value.scenario_id = persona.id
                  conf == response.value.confidence
              IN /\ \A k \in 1..Len(persona.triggers) :
                        persona.triggers[k] \notin RecognisedTriggers
                            => ~check_trigger(persona.triggers[k], request.signals)
                 /\ HasUnknownTrigger(persona) =>
                        /\ TriggerHits(persona, request.signals) < Len(persona.triggers)
                        /\ chosen => conf.num < conf.den
                 /\ persona.triggers = <<>> => ~chosen

\* the persona with the unknown trigger is selected, at 1 of its 2 triggers,
\* from a catalog that also holds the persona without triggers
C29_Witness ==
    /\ MatchCalled
    /\ \E i \in 1..Len(SCENARIOS) : SCENARIOS[i] = untriggered
    /\ \E i \in 1..Len(SCENARIOS) : SCENARIOS[i] = unresolvable
    /\ response.value.scenario_id = "unresolvable"
    /\ response.value.confidence = Frac(1, 2)

-----------------------------------------------------------------------------
(* The running service: the shipped catalog, requests of every kind from   *)
(* one installation and from callers without a fingerprint id              *)

\* events one user may accumulate
MaxUserEvents == 1

Users == {"fp_a"}

\* a UserEvent after model_dump(): every field of the model is a key
UserEvent(event_type, category, content_type, source, scenario, timestamp, duration_ms) ==
    [event_type |-> event_type, category |-> category,
     content_type |-> content_type, source |-> source, scenario |-> scenario,
     timestamp |-> timestamp, duration_ms |-> duration_ms]

\* total_events of an id, 0 for an id without a record
EventsOf(fingerprint_id) ==
    IF fingerprint_id \in DOMAIN store THEN store[fingerprint_id].total_events ELSE 0

SystemSnapshots ==
    {[DefaultSignals EXCEPT
        !.fingerprint_id = fingerprint_id,
        !.context.is_morning = (kind = "morning_hi"),
        !.context.language = IF kind = "morning_hi" THEN "hi" ELSE "en",
        !.context.is_weekend = (kind = "weekend")] :
     fingerprint_id \in Users \cup {None},
     kind \in {"morning_hi", "weekend"}}

SystemEvents ==
    {UserEvent("like", "music", None, "Spotify", "morning_devotee", now, NoInt),
     UserEvent("session_end", None, None, None, None, now, NoInt)}

SystemFeedback ==
    {[fingerprint_id |-> fingerprint_id, scenario |-> "morning_devotee",
      feedback |-> feedback, category |-> "music", content_type |-> "song",
      source |-> "Spotify", timestamp |-> now] :
     fingerprint_id \in Users \cup {None}, feedback \in {"like", "dislike"}}

\* the snapshots of callers without a fingerprint id
AnonymousSnapshots == {signals \in SystemSnapshots : signals.fingerprint_id = None}

\* feedback received without a fingerprint id so far
AnonymousFeedback ==
    LET Total(sc) == feedback_aggregates[sc].likes + feedback_aggregates[sc].dislikes
    IN IF "morning_devotee" \in DOMAIN feedback_aggregates
       THEN Total("morning_devotee") ELSE 0

Init == Started(ShippedCatalog, "service", AnonymousSnapshots)

DoMatch == \E signals \in AnonymousSnapshots : MatchScenario(signals)

\* a session is opened for an id that has at most MaxUserEvents events
DoInit ==
    \E signals \in SystemSnapshots :
        /\ EventsOf(signals.fingerprint_id) <= MaxUserEvents
        /\ initialize_context(signals)

DoTrack ==
    \E fingerprint_id \in Users, event \in SystemEvents :
        /\ EventsOf(fingerprint_id) < MaxUserEvents
        /\ track_events(fingerprint_id, <<event>>)

DoFeedback ==
    \E feedback \in SystemFeedback :
        /\ EventsOf(feedback.fingerprint_id) < MaxUserEvents
        /\ feedback.fingerprint_id = None => AnonymousFeedback = 0
        /\ submit_feedback(feedback)

DoIntelligence == \E fingerprint_id \in Users : get_user_intelligence(fingerprint_id)

\* the clock moves on by one day, once
DoTick == now = 0 /\ Tick(MsPerDay)

Next == DoMatch \/ DoInit \/ DoTrack \/ DoFeedback \/ DoIntelligence \/ DoTick

Spec == Init /\ [][Next]_vars

\* C4: match_scenario is a pure function of the snapshot and the catalog.
\* Whatever requests have been served, a call answers what it answered for
\* the same snapshot at process start (also when initialize_context makes
\* the call), and a call changes no profile record, no aggregate and no
\* catalog entry.
C4_MatchIsPure ==
    [][/\ (request'.op = "match_scenario") =>
            /\ response'.value = matched[request'.signals]
            /\ UNCHANGED <<SCENARIOS, store, store_aggregates, event_counts,
                           feedback_aggregates>>
       /\ (request'.op = "initialize_context" /\ request'.signals \in DOMAIN matched) =>
            response'.value.match = matched[request'.signals]]_vars

\* a call made after requests have changed the store and the catalog's
\* suggestion priorities, answering as at process start
C4_Witness ==
    /\ MatchCalled
    /\ store # EmptyDict
    /\ SCENARIOS # ShippedCatalog
    /\ response.value = matched[request.signals]
    /\ response.value.scenario_id = "morning_devotee"

\* C24: the scenario catalog never changes: whatever personalization,
\* feedback and event requests have been served, every persona's triggers
\* and every field of its suggestions, priority included, are what they
\* were at process start.
C24_CatalogImmutable == SCENARIOS = ShippedCatalog

\* the snapshot with isMorning = true and language = "hi" and every other
\* signal at its default
MorningHindi ==
    [DefaultSignals EXCEPT !.context.is_morning = TRUE, !.context.language = "hi"]

\* C25: for the snapshot whose only non-default signals are isMorning = true
\* and language = "hi", match_scenario on the shipped catalog returns
\* morning_devotee, the persona with the triggers morning,
\* hindi_or_regional, spiritual_interest and low_brightness, with
\* confidence 0.5.
C25_MorningHindiExample ==
    (request.op = "match_scenario" /\ request.signals = MorningHindi) =>
        /\ ~response.raised
        /\ response.value.scenario_id = "morning_devotee"
        /\ response.value.confidence.num * 2 = response.value.confidence.den
        /\ \E i \in 1..Len(SCENARIOS) :
              /\ SCENARIOS[i].id = "morning_devotee"
              /\ SCENARIOS[i].triggers =
                    <<"morning", "hindi_or_regional", "spiritual_interest",
                      "low_brightness">>

\* the example has been asked, after the catalog's priorities were rewritten
C25_Witness ==
    /\ request.op = "match_scenario"
    /\ request.signals = MorningHindi
    /\ response.value.scenario_id = "morning_devotee"
    /\ SCENARIOS # ShippedCatalog

\* C31: a personalization request with a fingerprint id applies exactly one
\* session_start event to the user (total_events grows by 1), records the
\* matched id once through update_scenario, the fallback id included, and
\* ranks the candidates with the preferences that hold after the
\* session_start event was folded in; a request without a fingerprint id
\* changes no profile record.
C31_InitAppliesOneSessionStart ==
    [][(request'.op = "initialize_context" /\ now' = now) =>
          LET signals == request'.signals
              fid == signals.fingerprint_id
              value == response'.value
          IN IF Truthy(fid)
             THEN LET before == get_or_create_user(store, fid, now)[fid]
                      after == store'[fid]
                      started == after.recent_events[Len(after.recent_events)]
                      pos == ScenarioOrFallback(SCENARIOS, value.matched_scenario)
                  IN /\ after.total_events = before.total_events + 1
                     /\ after.recent_events
                           = Append(before.recent_events, started)
                     /\ started.event_type = "session_start"
                     /\ HourOf(started.timestamp)
                           \in Range(after.preferences.active_hours)
                     /\ value.matched_scenario
                           = match_scenario(SCENARIOS, signals).scenario_id
                     /\ after.scenario_history
                           = Append(before.scenario_history, value.matched_scenario)
                     /\ after.last_scenario = value.matched_scenario
                     /\ value.suggestions
                           = FirstN(enhance_suggestions_with_learning(
                                        SCENARIOS[pos].suggestions, after).result, 3)
             ELSE store' = store]_vars

\* a request of a known user answered with the fallback id, which the
\* history then ends with
C31_Witness ==
    /\ request.op = "initialize_context"
    /\ request.signals.fingerprint_id = "fp_a"
    /\ response.value.matched_scenario = "general"
    /\ "fp_a" \in DOMAIN store
    /\ store["fp_a"].last_scenario = "general"
    /\ Len(store["fp_a"].scenario_history) = 2
    /\ store["fp_a"].total_events = 2
    /\ store["fp_a"].recent_events[2].event_type = "session_start"

\* a request without a fingerprint id served after a profile exists
C31_WitnessAnonymous ==
    /\ request.op = "initialize_context"
    /\ request.signals.fingerprint_id = None
    /\ "fp_a" \in DOMAIN store

-----------------------------------------------------------------------------
(* The ring buffer: one stream of events e1, e2, ... applied to fp_full    *)
(* from e1 on and to fp_tail from the event that leaves exactly            *)
(* RecentEventsCap events up to the end of the stream                      *)

\* length of the stream
MaxRingEvents == 150

RingUsers == {"fp_full", "fp_tail"}

\* how many events of the stream the user skips
RingStart(fingerprint_id) ==
    IF fingerprint_id = "fp_full" THEN 0 ELSE MaxRingEvents - RecentEventsCap

AppliedTo(fingerprint_id) ==
    IF fingerprint_id \in DOMAIN applied THEN applied[fingerprint_id] ELSE 0

\* the one event of the stream that makes add_events raise: a session_end
\* whose duration_ms is None
RingFault == MaxRingEvents \div 2

\* the i-th event of the stream
RingEvent(i) ==
    [event_id |-> i,
     event_type |-> IF i = RingFault THEN "session_end"
                    ELSE <<"view", "like", "session_end", "share">>[(i % 4) + 1],
     timestamp |-> i * MsPerHour,
     duration_ms |-> IF i % 4 = 2 /\ i # RingFault THEN SomeInt(1000 * i) ELSE NoInt]

\* the next size events of the stream for this user: the stream is resumed
\* after the last event add_events took up
RingBatch(fingerprint_id, size) ==
    [k \in 1..size |-> RingEvent(RingStart(fingerprint_id) + AppliedTo(fingerprint_id) + k)]

\* what is left of the stream for this user
RingRest(fingerprint_id) ==
    MaxRingEvents - RingStart(fingerprint_id) - AppliedTo(fingerprint_id)

RingBatchSizes(fingerprint_id) ==
    IF fingerprint_id = "fp_full"
    THEN {RecentEventsCap \div 5, RecentEventsCap \div 2, RingRest(fingerprint_id)}
    ELSE {RecentEventsCap \div 2, RingRest(fingerprint_id)}

InitRing == Started(ShippedCatalog, "ring", {})

\* fp_tail is sent its part once fp_full has been sent the whole stream
RingAdd ==
    \E fingerprint_id \in RingUsers :
        \E size \in RingBatchSizes(fingerprint_id) :
            /\ size > 0
            /\ size <= RingRest(fingerprint_id)
            /\ fingerprint_id = "fp_tail" => RingRest("fp_full") = 0
            /\ AddEvents(fingerprint_id, RingBatch(fingerprint_id, size))

RingFeedback ==
    /\ "night_owl" \notin DOMAIN store_aggregates
    /\ \E feedback \in {"like", "dislike"} : RecordFeedback("fp_full", "night_owl", feedback)

RingScenario ==
    /\ "fp_full" \in DOMAIN store => store["fp_full"].scenario_history = <<>>
    /\ UpdateScenario("fp_full", "night_owl")

RingJourney == CalculateJourneyDay("fp_full")

RingSummary == GetIntelligenceSummary("fp_full")

NextRing == RingAdd \/ RingFeedback \/ RingScenario \/ RingJourney \/ RingSummary

SpecRing == InitRing /\ [][NextRing]_vars

\* the last Min(n, cap) events of the stream a user has received
StreamTail(fingerprint_id) ==
    LET n == AppliedTo(fingerprint_id)
        kept == Min(n, RecentEventsCap)
    IN [i \in 1..kept |-> RingEvent(RingStart(fingerprint_id) + n - kept + i)]

\* C5: after n events have been applied to a user, in one batch or many,
\* recent_events holds exactly the last min(n, 100) of them in arrival
\* order; so the user who received e1..e150 and the user who received only
\* the last 100 of these hold the same ring buffer.
C5_RingKeepsLastHundred ==
    /\ \A fingerprint_id \in DOMAIN store :
          store[fingerprint_id].recent_events = StreamTail(fingerprint_id)
    /\ (/\ AppliedTo("fp_full") = MaxRingEvents
        /\ AppliedTo("fp_tail") = RecentEventsCap)
          => store["fp_full"].recent_events = store["fp_tail"].recent_events

\* both users at the end of the stream, fp_full having had 50 events evicted
C5_Witness ==
    /\ AppliedTo("fp_full") = MaxRingEvents
    /\ AppliedTo("fp_tail") = RecentEventsCap
    /\ store["fp_full"].recent_events = store["fp_tail"].recent_events
    /\ Len(store["fp_full"].recent_events) = RecentEventsCap
    /\ store["fp_full"].recent_events[1] = RingEvent(MaxRingEvents - RecentEventsCap + 1)
    /\ RingEvent(RingFault) \in Range(store["fp_full"].recent_events)

\* C7: total_events is the number of events applied to the user through
\* add_events, it is not capped by the ring buffer, no operation decreases
\* it, and len(recent_events) = min(total_events, 100).
C7_TotalEventsCounts ==
    [][\A fingerprint_id \in DOMAIN store' :
        LET user == store'[fingerprint_id]
        IN /\ user.total_events = IF fingerprint_id \in DOMAIN applied'
                                  THEN applied'[fingerprint_id] ELSE 0
           /\ Len(user.recent_events) = Min(user.total_events, RecentEventsCap)
           /\ fingerprint_id \in DOMAIN store =>
                 user.total_events >= store[fingerprint_id].total_events]_vars

\* a user with more events counted than the ring buffer holds
C7_Witness ==
    /\ "fp_full" \in DOMAIN store
    /\ store["fp_full"].total_events = MaxRingEvents
    /\ Len(store["fp_full"].recent_events) = RecentEventsCap
    /\ store["fp_full"].total_likes + store["fp_full"].total_dislikes = 1
    /\ store["fp_full"].last_scenario = "night_owl"

-----------------------------------------------------------------------------
(* The bounded lists of a profile: one user who is sent more distinct      *)
(* content types, sources and hours than the caps allow, and is matched    *)
(* more often than scenario_history holds                                  *)

\* distinct kinds of event in the pool
MaxKinds == 9

\* update_scenario calls for the user
MaxScenarioCalls == 21

CapUser == "fp_caps"

\* the k-th kind of event: its hour is k; content types repeat after
\* ContentTypesCap + 1 kinds and sources after SourcesCap + 2
CapEvent(k) ==
    [event_type |-> IF k % 2 = 1 THEN "view" ELSE "click",
     content_type |-> "type_" \o ToString(k % (ContentTypesCap + 1)),
     source |-> "source_" \o ToString(k % (SourcesCap + 2)),
     timestamp |-> (k % 24) * MsPerHour]

InitCaps == Started(ShippedCatalog, "caps", {})

\* the kinds of event the user has been sent
KindsSent ==
    IF CapUser \notin DOMAIN store THEN {}
    ELSE {k \in 1..MaxKinds : CapEvent(k) \in Range(store[CapUser].recent_events)}

\* kinds are first sent in order; a kind already sent can be sent again,
\* once in all
CapsAdd ==
    \E k \in 1..MaxKinds :
        /\ \/ k = Cardinality(KindsSent) + 1
           \/ /\ k \in KindsSent
              /\ AppliedTo(CapUser) = Cardinality(KindsSent)
        /\ AddEvents(CapUser, <<CapEvent(k)>>)

CapsFeedback ==
    /\ store_aggregates = EmptyDict
    /\ \E feedback \in {"like", "dislike"} : RecordFeedback(CapUser, "night_owl", feedback)

\* update_scenario calls made for the user so far
ScenarioCalls(fingerprint_id) ==
    IF fingerprint_id \notin DOMAIN store THEN 0
    ELSE LET affinity == store[fingerprint_id].preferences.scenario_affinity
         IN IF "night_owl" \in DOMAIN affinity THEN affinity["night_owl"] ELSE 0

CapsScenario ==
    /\ ScenarioCalls(CapUser) < MaxScenarioCalls
    /\ UpdateScenario(CapUser, "night_owl")

NextCaps == CapsAdd \/ CapsFeedback \/ CapsScenario

SpecCaps == InitCaps /\ [][NextCaps]_vars

\* C6: after any sequence of add_events, record_feedback and update_scenario
\* a profile has at most 5 preferred content types, 5 preferred sources,
\* 8 active hours and 20 scenario_history entries.
C6_ListsStayWithinCaps ==
    \A fingerprint_id \in DOMAIN store :
        LET user == store[fingerprint_id]
        IN /\ Len(user.preferences.preferred_content_types) <= 5
           /\ Len(user.preferences.preferred_sources) <= 5
           /\ Len(user.preferences.active_hours) <= 8
           /\ Len(user.scenario_history) <= 20

\* every list full after more distinct values than its cap were offered
C6_Witness ==
    /\ CapUser \in DOMAIN store
    /\ LET user == store[CapUser]
       IN /\ Len(user.preferences.preferred_content_types) = 5
          /\ "type_4" \notin Range(user.preferences.preferred_content_types)
          /\ Len(user.preferences.preferred_sources) = 5
          /\ "source_3" \notin Range(user.preferences.preferred_sources)
          /\ Len(user.preferences.active_hours) = 8
          /\ 1 \notin Range(user.preferences.active_hours)
          /\ Len(user.scenario_history) = 20
          /\ user.preferences.scenario_affinity["night_owl"] > 20
          /\ user.total_likes + user.total_dislikes = 1

-----------------------------------------------------------------------------
(* Learning from events: one user who is sent every kind of event the      *)
(* learning rules tell apart, alone or in a batch of two                   *)

\* events applied to the user
MaxLearnEvents == 3

\* update_scenario calls for the user
MaxLearnMatches == 2

LearnUser == "fp_learn"

like_tagged == [event_type |-> "like", category |-> "music", scenario |-> "night_owl"]

dislike_tagged == [event_type |-> "dislike", category |-> "music", scenario |-> "night_owl"]

like_plain == [event_type |-> "like"]

view_tagged == [event_type |-> "view", category |-> "music", scenario |-> "night_owl"]

click_tagged == [event_type |-> "click", scenario |-> "weekend_family"]

share_tagged == [event_type |-> "share", scenario |-> "festival_shopper"]

teleport == [event_type |-> "teleport"]

\* a session_end event that carries no duration_ms key
session_end_absent == [event_type |-> "session_end"]

\* the dump of a UserEvent whose durationMs was left out: duration_ms is None
session_end_null == [event_type |-> "session_end", duration_ms |-> NoInt]

LearnEvents ==
    {like_tagged, dislike_tagged, like_plain, view_tagged, click_tagged,
     share_tagged, teleport, session_end_absent, session_end_null}

LearnBatches ==
    {<<event>> : event \in LearnEvents}
        \cup {<<like_tagged, dislike_tagged>>, <<session_end_null, like_tagged>>}

InitLearn == Started(ShippedCatalog, "learn", {})

LearnAdd ==
    \E events \in LearnBatches :
        /\ AppliedTo(LearnUser) + Len(events) <= MaxLearnEvents
        /\ AddEvents(LearnUser, events)

LearnScenario ==
    /\ LearnUser \in DOMAIN store =>
          Len(store[LearnUser].scenario_history) < MaxLearnMatches
    /\ UpdateScenario(LearnUser, "night_owl")

NextLearn == LearnAdd \/ LearnScenario

SpecLearn == InitLearn /\ [][NextLearn]_vars

\* C8: add_events never fails on a well-formed event list, an unknown
\* event type and a session_end without duration (absent, or null as the
\* event endpoint passes it) included, and it returns len(events).
C8_AddEventsNeverFails ==
    request.op = "add_events" =>
        /\ ~response.raised
        /\ response.value = Len(request.events)

LikedOf(st, fingerprint_id) ==
    IF fingerprint_id \in DOMAIN st
    THEN st[fingerprint_id].preferences.liked_categories ELSE <<>>

DislikedOf(st, fingerprint_id) ==
    IF fingerprint_id \in DOMAIN st
    THEN st[fingerprint_id].preferences.disliked_categories ELSE <<>>

\* C9: a like with category c puts c on the liked list (once) and takes it
\* off the disliked list; a dislike with category c puts c on the disliked
\* list (once) and leaves the liked list alone, so like(c) followed by
\* dislike(c) leaves c on both lists; an event without a category changes
\* neither list.
C9_LikeDislikeRules ==
    [][request'.op = "add_events" =>
        LET fingerprint_id == request'.fingerprint_id
            events == request'.events
            event_type == EventGet(events[1], "event_type", None)
            c == EventGet(events[1], "category", None)
            liked == LikedOf(store, fingerprint_id)
            disliked == DislikedOf(store, fingerprint_id)
            liked_after == LikedOf(store', fingerprint_id)
            disliked_after == DislikedOf(store', fingerprint_id)
        IN /\ (Len(events) = 1 /\ event_type = "like" /\ c # None) =>
                 /\ liked_after = IF c \in Range(liked) THEN liked ELSE Append(liked, c)
                 /\ Range(disliked_after) = Range(disliked) \ {c}
                 /\ Injective(disliked_after)
           /\ (Len(events) = 1 /\ event_type = "dislike" /\ c # None) =>
                 /\ disliked_after =
                        IF c \in Range(disliked) THEN disliked ELSE Append(disliked, c)
                 /\ liked_after = liked
           /\ (Len(events) = 1 /\ ~(event_type \in {"like", "dislike"} /\ c # None)) =>
                 /\ liked_after = liked
                 /\ disliked_after = disliked
           /\ events = <<like_tagged, dislike_tagged>> =>
                 /\ "music" \in Range(liked_after)
                 /\ "music" \in Range(disliked_after)]_vars

\* a category on both lists after like(c), dislike(c) came in one batch
C9_Witness ==
    /\ request.op = "add_events"
    /\ request.events = <<like_tagged, dislike_tagged>>
    /\ LikedOf(store, LearnUser) = <<"music">>
    /\ DislikedOf(store, LearnUser) = <<"music">>

\* the like and dislike events carrying category c, oldest first
Verdicts(user, c) ==
    SelectSeq(user.recent_events,
              LAMBDA event : /\ EventGet(event, "event_type", None) \in {"like", "dislike"}
                             /\ EventGet(event, "category", None) = c)

\* no duplicate on either list, and a category on both lists was last
\* disliked
CategoriesConsistent(st) ==
    \A fingerprint_id \in DOMAIN st :
        LET user == st[fingerprint_id]
            liked == user.preferences.liked_categories
            disliked == user.preferences.disliked_categories
        IN /\ Injective(liked)
           /\ Injective(disliked)
           /\ \A c \in Range(liked) \cap Range(disliked) :
                 LET verdicts == Verdicts(user, c)
                 IN /\ verdicts # <<>>
                    /\ verdicts[Len(verdicts)].event_type = "dislike"

\* C36: liked_categories never loses a member, neither list holds a
\* duplicate, and a category is on both lists only if the most recent like
\* or dislike event carrying it was a dislike.
C36_CategoryListsConsistent ==
    [][/\ \A fingerprint_id \in DOMAIN store :
            Range(LikedOf(store, fingerprint_id))
                \subseteq Range(LikedOf(store', fingerprint_id))
       /\ CategoriesConsistent(store')]_vars

\* liked twice and then disliked: the category is once on each list
C36_Witness ==
    /\ LearnUser \in DOMAIN store
    /\ store[LearnUser].recent_events = <<like_tagged, like_tagged, dislike_tagged>>
    /\ LikedOf(store, LearnUser) = <<"music">>
    /\ DislikedOf(store, LearnUser) = <<"music">>

\* disliked and then liked: the like took the category off the disliked list
C36_WitnessLikedLast ==
    /\ LearnUser \in DOMAIN store
    /\ store[LearnUser].recent_events = <<dislike_tagged, like_tagged>>
    /\ LikedOf(store, LearnUser) = <<"music">>
    /\ DislikedOf(store, LearnUser) = <<>>

\* events of the user tagged with scenario p whose type is one of types
Tagged(user, p, types) ==
    Cardinality({i \in DOMAIN user.recent_events :
                    /\ EventGet(user.recent_events[i], "scenario", None) = p
                    /\ EventGet(user.recent_events[i], "event_type", None) \in types})

\* update_scenario(p) calls of the user
MatchesOf(user, p) ==
    Cardinality({i \in DOMAIN user.scenario_history : user.scenario_history[i] = p})

\* C10: scenario_affinity[p] is the number of like, click and view events
\* tagged p, minus half the number of dislike events tagged p, plus half the
\* number of update_scenario(p) calls; an event of another type tagged p
\* creates the entry at 0; nothing else changes it (values doubled).
C10_AffinityArithmetic ==
    \A fingerprint_id \in DOMAIN store :
        LET user == store[fingerprint_id]
            affinity == user.preferences.scenario_affinity
        IN /\ DOMAIN affinity =
                ({EventGet(user.recent_events[i], "scenario", None) :
                    i \in DOMAIN user.recent_events} \ {None, ""})
                \cup Range(user.scenario_history)
           /\ \A p \in DOMAIN affinity :
                 affinity[p] = 2 * Tagged(user, p, {"like", "click", "view"})
                                 - Tagged(user, p, {"dislike"})
                                 + MatchesOf(user, p)

\* a like, a dislike and a match on one persona, and an entry created at 0
C10_Witness ==
    /\ LearnUser \in DOMAIN store
    /\ LET user == store[LearnUser]
           affinity == user.preferences.scenario_affinity
       IN /\ DOMAIN affinity = {"night_owl", "festival_shopper"}
          /\ affinity["night_owl"] = 2
          /\ affinity["festival_shopper"] = 0
          /\ Tagged(user, "night_owl", {"dislike"}) = 1
          /\ MatchesOf(user, "night_owl") = 1

-----------------------------------------------------------------------------
(* The match history: one user matched to two personas more often than     *)
(* scenario_history holds, with an event and a feedback in between         *)

\* affinity (doubled) up to which a persona is matched again
MaxAffinity == 13

HistoryUser == "fp_history"

HistoryPersonas == {"night_owl", "weekend_family"}

\* the record of an id, as get_or_create_user would return it now
RecordOf(st, fingerprint_id) ==
    get_or_create_user(st, fingerprint_id, now)[fingerprint_id]

\* dict.get(key, 0)
AffinityOf(user, p) ==
    IF p \in DOMAIN user.preferences.scenario_affinity
    THEN user.preferences.scenario_affinity[p] ELSE 0

InitHistory == Started(ShippedCatalog, "history", {})

\* the first two matches are free, later ones alternate
HistoryScenario ==
    \E p \in HistoryPersonas :
        LET user == RecordOf(store, HistoryUser)
        IN /\ AffinityOf(user, p) < MaxAffinity
           /\ Len(user.scenario_history) >= 2 => p # user.last_scenario
           /\ UpdateScenario(HistoryUser, p)

HistoryAdd ==
    /\ AppliedTo(HistoryUser) = 0
    /\ \E event \in {like_tagged, share_tagged} : AddEvents(HistoryUser, <<event>>)

HistoryFeedback ==
    /\ store_aggregates = EmptyDict
    /\ RecordFeedback(HistoryUser, "night_owl", "like")

NextHistory == HistoryScenario \/ HistoryAdd \/ HistoryFeedback

SpecHistory == InitHistory /\ [][NextHistory]_vars

\* C11: update_scenario(id, p) sets last_scenario to p, appends p to
\* scenario_history and drops the oldest entry when there would be more
\* than 20, adds exactly 0.5 (1 doubled) to scenario_affinity[p], and
\* changes no other persona's affinity, no event data, no feedback counter
\* and no other user.
C11_UpdateScenarioEffect ==
    [][request'.op = "update_scenario" =>
        LET fingerprint_id == request'.fingerprint_id
            p == request'.scenario
            before == RecordOf(store, fingerprint_id)
            after == store'[fingerprint_id]
            history == before.scenario_history
        IN /\ after.last_scenario = p
           /\ after.scenario_history =
                 IF Len(history) < 20 THEN Append(history, p)
                 ELSE Append(Tail(history), p)
           /\ DOMAIN after.preferences.scenario_affinity =
                 DOMAIN before.preferences.scenario_affinity \cup {p}
           /\ \A q \in DOMAIN after.preferences.scenario_affinity :
                 after.preferences.scenario_affinity[q] =
                    AffinityOf(before, q) + IF q = p THEN 1 ELSE 0
           /\ after.recent_events = before.recent_events
           /\ after.total_events = before.total_events
           /\ after.total_likes = before.total_likes
           /\ after.total_dislikes = before.total_dislikes
           /\ store_aggregates' = store_aggregates
           /\ event_counts' = event_counts
           /\ \A other \in DOMAIN store \ {fingerprint_id} :
                 store'[other] = store[other]]_vars

\* a match that pushed the oldest entry out of a full history of two
\* personas, for a user who also has an event and a feedback
C11_Witness ==
    /\ request.op = "update_scenario"
    /\ HistoryUser \in DOMAIN store
    /\ LET user == store[HistoryUser]
       IN /\ Len(user.scenario_history) = 20
          /\ user.scenario_history[20] = request.scenario
          /\ user.last_scenario = request.scenario
          /\ user.scenario_history[19] # request.scenario
          /\ AffinityOf(user, "night_owl") + AffinityOf(user, "weekend_family")
                - 2 * Tagged(user, "night_owl", {"like"}) > 20
          /\ user.total_events = 1
          /\ user.total_likes = 1

\* C37: last_scenario is None exactly when scenario_history is empty, and
\* otherwise it is the final element of scenario_history.
C37_LastScenarioEndsHistory ==
    \A fingerprint_id \in DOMAIN store :
        LET user == store[fingerprint_id]
            history == user.scenario_history
        IN /\ (user.last_scenario = None) <=> (history = <<>>)
           /\ history # <<>> => user.last_scenario = history[Len(history)]

\* a history that has been trimmed: 21 matches recorded, 20 kept
C37_Witness ==
    /\ HistoryUser \in DOMAIN store
    /\ LET user == store[HistoryUser]
       IN /\ Len(user.scenario_history) = ScenarioHistoryCap
          /\ user.total_events = 0
          /\ AffinityOf(user, "night_owl") + AffinityOf(user, "weekend_family") = 21
          /\ user.last_scenario = user.scenario_history[ScenarioHistoryCap]

\* a record made by an event, before any match
C37_WitnessEmpty ==
    /\ HistoryUser \in DOMAIN store
    /\ store[HistoryUser].total_events = 1
    /\ store[HistoryUser].scenario_history = <<>>
    /\ store[HistoryUser].last_scenario = None

-----------------------------------------------------------------------------
(* The two feedback paths: one user who gives feedback through             *)
(* record_feedback and sends like and dislike events through add_events    *)

\* record_feedback calls with a like or a dislike
MaxFeedback == 3

FeedbackUser == "fp_feedback"

InitFeedback == Started(ShippedCatalog, "feedback", {})

\* "love" is a polarity the store does not know
FeedbackRecord ==
    \E p \in HistoryPersonas, polarity \in {"like", "dislike", "love"} :
        LET user == RecordOf(store, FeedbackUser)
        IN /\ user.total_likes + user.total_dislikes < MaxFeedback
           /\ RecordFeedback(FeedbackUser, p, polarity)

FeedbackAdd ==
    /\ AppliedTo(FeedbackUser) < MaxLearnEvents
    /\ \E event \in {like_tagged, dislike_tagged} : AddEvents(FeedbackUser, <<event>>)

NextFeedback == FeedbackRecord \/ FeedbackAdd

SpecFeedback == InitFeedback /\ [][NextFeedback]_vars

\* _feedback_aggregates.get(p, {"likes": 0, "dislikes": 0})
AggregateOf(aggregates, p) ==
    IF p \in DOMAIN aggregates THEN aggregates[p] ELSE [likes |-> 0, dislikes |-> 0]

\* C12: record_feedback(id, p, like) adds exactly 1 to the user's
\* total_likes and to the aggregate likes of p (dislike: total_dislikes and
\* the aggregate dislikes), touches no other counter or persona, and
\* leaves preferences, recent_events and total_events alone; an add_events
\* call, whatever like and dislike events it carries, changes no
\* total_likes, no total_dislikes and no aggregate.
C12_FeedbackPathsAreSeparate ==
    [][LET fingerprint_id == request'.fingerprint_id
           before == RecordOf(store, fingerprint_id)
           after == store'[fingerprint_id]
       IN /\ (request'.op = "record_feedback"
                /\ request'.feedback \in {"like", "dislike"}) =>
               LET p == request'.scenario
                   like == IF request'.feedback = "like" THEN 1 ELSE 0
               IN /\ after.total_likes = before.total_likes + like
                  /\ after.total_dislikes = before.total_dislikes + (1 - like)
                  /\ store_aggregates'[p].likes =
                        AggregateOf(store_aggregates, p).likes + like
                  /\ store_aggregates'[p].dislikes =
                        AggregateOf(store_aggregates, p).dislikes + (1 - like)
                  /\ \A q \in DOMAIN store_aggregates' \ {p} :
                        /\ q \in DOMAIN store_aggregates
                        /\ store_aggregates'[q] = store_aggregates[q]
                  /\ after.preferences = before.preferences
                  /\ after.recent_events = before.recent_events
                  /\ after.total_events = before.total_events
          /\ request'.op = "add_events" =>
               /\ after.total_likes = before.total_likes
               /\ after.total_dislikes = before.total_dislikes
               /\ store_aggregates' = store_aggregates]_vars

\* a user with likes and dislikes counted on both paths, differently
C12_Witness ==
    /\ FeedbackUser \in DOMAIN store
    /\ request.op = "record_feedback"
    /\ request.feedback = "dislike"
    /\ LET user == store[FeedbackUser]
       IN /\ user.total_likes = 1
          /\ user.total_dislikes = 2
          /\ user.total_events = 2
          /\ user.preferences.liked_categories = <<"music">>
          /\ AggregateOf(store_aggregates, "night_owl").dislikes = 2
          /\ AggregateOf(store_aggregates, "weekend_family").likes = 1

-----------------------------------------------------------------------------
(* The life of a record: one id that any store operation may be the first  *)
(* to name, while the clock moves on by half days                          *)

\* half days the clock may advance
MaxHalfDays == 5

LifeUser == "fp_new"

StoreOps ==
    {"add_events", "record_feedback", "update_scenario",
     "calculate_journey_day", "get_intelligence_summary"}

InitLife == Started(ShippedCatalog, "life", {})

LifeGet == GetOrCreateUser(LifeUser)

LifeAdd ==
    /\ AppliedTo(LifeUser) = 0
    /\ \E event \in {like_tagged, session_end_null} : AddEvents(LifeUser, <<event>>)

LifeFeedback ==
    /\ RecordOf(store, LifeUser).total_likes = 0
    /\ RecordFeedback(LifeUser, "night_owl", "like")

LifeScenario ==
    /\ RecordOf(store, LifeUser).scenario_history = <<>>
    /\ UpdateScenario(LifeUser, "night_owl")

LifeJourney == CalculateJourneyDay(LifeUser)

LifeSummary == GetIntelligenceSummary(LifeUser)

LifeTick == now < MaxHalfDays * (MsPerDay \div 2) /\ Tick(MsPerDay \div 2)

NextLife ==
    \/ LifeGet \/ LifeAdd \/ LifeFeedback \/ LifeScenario
    \/ LifeJourney \/ LifeSummary \/ LifeTick

SpecLife == InitLife /\ [][NextLife]_vars

\* C13: the first get_or_create_user call for an id creates a zero-state
\* record (empty lists, zero counters, no last scenario) with
\* first_seen_at = created_at = now; a later call returns the record as it
\* is and changes nothing; and no step changes the first_seen_at of a
\* record that exists.
C13_GetOrCreateIsIdempotent ==
    [][/\ request'.op = "get_or_create_user" =>
            LET fingerprint_id == request'.fingerprint_id
            IN IF fingerprint_id \in DOMAIN store
               THEN /\ store' = store
                    /\ response'.value = store[fingerprint_id]
               ELSE /\ response'.value = store'[fingerprint_id]
                    /\ store'[fingerprint_id] =
                         [fingerprint_id |-> fingerprint_id,
                          created_at |-> now, updated_at |-> now,
                          journey_day |-> 0, first_seen_at |-> now,
                          recent_events |-> <<>>, total_events |-> 0,
                          patterns |-> <<>>,
                          preferences |->
                             [liked_categories |-> <<>>,
                              disliked_categories |-> <<>>,
                              preferred_content_types |-> <<>>,
                              preferred_sources |-> <<>>,
                              active_hours |-> <<>>,
                              preferred_time_of_day |-> None,
                              avg_session_duration_ms |-> 0,
                              total_sessions |-> 0,
                              scenario_affinity |-> EmptyDict],
                          total_likes |-> 0, total_dislikes |-> 0,
                          last_scenario |-> None, scenario_history |-> <<>>]
       /\ \A fingerprint_id \in DOMAIN store :
            /\ fingerprint_id \in DOMAIN store'
            /\ store'[fingerprint_id].first_seen_at =
                  store[fingerprint_id].first_seen_at]_vars

\* a later look-up, after the clock moved on, of a record that has learned
C13_Witness ==
    /\ request.op = "get_or_create_user"
    /\ LifeUser \in DOMAIN store
    /\ response.value = store[LifeUser]
    /\ store[LifeUser].first_seen_at > 0
    /\ store[LifeUser].first_seen_at < now
    /\ store[LifeUser].total_events = 1
    /\ store[LifeUser].last_scenario = "night_owl"

\* C14: every store operation (add_events, record_feedback, update_scenario,
\* calculate_journey_day, get_intelligence_summary) that names an id the
\* store has not seen succeeds and leaves a record for that id, and the set
\* of known ids never shrinks.
C14_UnseenIdsAreCreated ==
    [][/\ (/\ request'.op \in StoreOps
           /\ now' = now
           /\ request'.fingerprint_id \notin DOMAIN store)
          => /\ ~response'.raised
             /\ request'.fingerprint_id \in DOMAIN store'
       /\ DOMAIN store \subseteq DOMAIN store']_vars

\* C15: calculate_journey_day returns the whole days between first_seen_at
\* and now, truncating, leaves that number in journey_day, never returns a
\* negative number, and never returns less than the record held before
\* while the clock advances.
C15_JourneyDayIsWholeDays ==
    [][(request'.op = "calculate_journey_day" /\ now' = now) =>
         LET fingerprint_id == request'.fingerprint_id
             first_seen == IF fingerprint_id \in DOMAIN store
                           THEN store[fingerprint_id].first_seen_at ELSE now
             days == response'.value
         IN /\ ~response'.raised
            /\ days * 86400000 <= now - first_seen
            /\ now - first_seen < (days + 1) * 86400000
            /\ days >= 0
            /\ store'[fingerprint_id].journey_day = days
            /\ fingerprint_id \in DOMAIN store =>
                  days >= store[fingerprint_id].journey_day]_vars

\* two and a half days after the record was made the call answers 2
C15_Witness ==
    /\ request.op = "calculate_journey_day"
    /\ LifeUser \in DOMAIN store
    /\ response.value = 2
    /\ store[LifeUser].journey_day = 2
    /\ (now - store[LifeUser].first_seen_at) % MsPerDay # 0
    /\ store[LifeUser].total_events = 1

-----------------------------------------------------------------------------
(* The two day-to-stage mappings, asked about one day after another        *)

\* the last journey day asked about
MaxDay == 120

StageRank(stage) ==
    CASE stage = "newcomer" -> 0
      [] stage = "explorer" -> 1
      [] stage = "regular" -> 2
      [] stage = "partner" -> 3

InitStage == Started(ShippedCatalog, "stage", {})

JourneyStage ==
    \E day \in 0..MaxDay :
        /\ request' = [op |-> "get_journey_stage", day |-> day]
        /\ response' = Returned([summary |-> SummaryStage(day),
                                 personalization |-> get_journey_stage(day)])
        /\ UNCHANGED <<SCENARIOS, store, store_aggregates, event_counts,
                       feedback_aggregates, now, matched, applied, scope>>

NextStage == JourneyStage

SpecStage == InitStage /\ [][NextStage]_vars

\* C16: a journey day maps to newcomer up to day 3, explorer on days 4..10,
\* regular on days 11..20 and partner from day 21 on; a later day never
\* maps to an earlier stage; and the chain inside get_intelligence_summary
\* and get_journey_stage give the same stage for every day.
C16_StageMapping ==
    [][/\ request'.op = "get_journey_stage" =>
            LET day == request'.day
                stage == response'.value.personalization
            IN /\ response'.value.summary = stage
               /\ stage = "newcomer" <=> day <= 3
               /\ stage = "explorer" <=> day \in 4..10
               /\ stage = "regular" <=> day \in 11..20
               /\ stage = "partner" <=> day >= 21
       /\ (/\ request.op = "get_journey_stage"
           /\ request'.op = "get_journey_stage"
           /\ request.day <= request'.day)
          => StageRank(response.value.summary)
                <= StageRank(response'.value.summary)]_vars

\* the first day of the last stage
C16_Witness ==
    /\ request.op = "get_journey_stage"
    /\ request.day = 21
    /\ response.value.summary = "partner"
    /\ response.value.personalization = "partner"

-----------------------------------------------------------------------------
(* The journey stage a visitor is told, by /v1/init and by the             *)
(* intelligence endpoint, while the weeks pass                             *)

\* weeks the clock may advance
MaxWeeks == 3

\* sessions opened for the visitor
MaxJourneyInits == 2

JourneyUser == "fp_journey"

\* journeyDay values the client sends
JourneyDaysSent == {0, 21}

JourneySnapshots ==
    {[DefaultSignals EXCEPT !.fingerprint_id = JourneyUser, !.journey_day = day] :
        day \in JourneyDaysSent}

InitJourney == Started(ShippedCatalog, "journey", {})

JourneyInit ==
    \E signals \in JourneySnapshots :
        /\ AppliedTo(JourneyUser) < MaxJourneyInits
        /\ initialize_context(signals)

JourneyIntelligence == get_user_intelligence(JourneyUser)

JourneyTick == now < MaxWeeks * 7 * MsPerDay /\ Tick(7 * MsPerDay)

NextJourney == JourneyInit \/ JourneyIntelligence \/ JourneyTick

SpecJourney == InitJourney /\ [][NextJourney]_vars

\* the id a reporting call names
ReportedFor(req) ==
    IF req.op = "initialize_context" THEN req.signals.fingerprint_id
    ELSE req.fingerprint_id

\* the journey stages a response tells
ReportedStages(req, resp) ==
    IF req.op = "initialize_context"
    THEN {resp.value.journey.stage}
            \union {resp.value.intelligence_summary[i].stage :
                       i \in DOMAIN resp.value.intelligence_summary}
    ELSE {resp.value.summary.stage}

\* C17: the journey stage told for an id, in an intelligence summary or in
\* a personalization response, is the stage of the whole days since
\* first_seen_at and of nothing else, and is never earlier than the stage
\* told before for that id.
C17_StageFollowsElapsedTime ==
    [][(/\ request'.op \in {"initialize_context", "get_user_intelligence"}
        /\ now' = now) =>
         LET fingerprint_id == ReportedFor(request')
             first_seen == IF fingerprint_id \in DOMAIN store
                           THEN store[fingerprint_id].first_seen_at ELSE now
             elapsed == (now - first_seen) \div MsPerDay
         IN /\ ReportedStages(request', response') = {SummaryStage(elapsed)}
            /\ (/\ request.op \in {"initialize_context", "get_user_intelligence"}
                /\ ReportedFor(request) = fingerprint_id)
               => \A before \in ReportedStages(request, response),
                     after \in ReportedStages(request', response') :
                       StageRank(before) <= StageRank(after)]_vars

-----------------------------------------------------------------------------
(* The engagement of one visitor whose counters grow: sessions first, then *)
(* events one at a time or 101 at once, likes at any time                  *)

MaxEngageEvents == 102

MaxEngageSessions == 2

MaxEngageLikes == 2

EngageUser == "fp_engaged"

page_view == [event_type |-> "view"]

session_timed == [event_type |-> "session_end", duration_ms |-> SomeInt(1000)]

InitEngage == Started(ShippedCatalog, "engage", {})

EngageSession ==
    LET user == get_or_create_user(store, EngageUser, now)[EngageUser]
    IN /\ user.total_events = user.preferences.total_sessions
       /\ user.preferences.total_sessions < MaxEngageSessions
       /\ AddEvents(EngageUser, <<session_timed>>)

EngageAdd ==
    \E size \in {1, 101} :
        LET user == get_or_create_user(store, EngageUser, now)[EngageUser]
        IN /\ user.total_events + size <= MaxEngageEvents
           /\ AddEvents(EngageUser, [i \in 1..size |-> page_view])

EngageFeedback ==
    /\ get_or_create_user(store, EngageUser, now)[EngageUser].total_likes
          < MaxEngageLikes
    /\ RecordFeedback(EngageUser, "night_owl", "like")

EngageSummary == GetIntelligenceSummary(EngageUser)

NextEngage == EngageSession \/ EngageAdd \/ EngageFeedback \/ EngageSummary

SpecEngage == InitEngage /\ [][NextEngage]_vars

\* C18: the engagement score a summary returns is
\* min(1.0, 0.3*(events/100) + 0.3*(likes/20) + 0.4*(sessions/10)), here to
\* the two decimals it is returned with, and the personalization level goes
\* by the returned score: low iff score <= 0.3, medium iff 0.3 < score <= 0.7,
\* high iff score > 0.7.
C18_LevelFollowsReturnedScore ==
    request.op = "get_intelligence_summary" =>
        LET user == store[request.fingerprint_id]
            thousandths == 3 * user.total_events + 15 * user.total_likes
                             + 40 * user.preferences.total_sessions
            formula == IF thousandths > 1000 THEN 1000 ELSE thousandths
            score == response.value.engagement_score
            level == response.value.personalization_level
        IN /\ 10 * score - formula \in -5..5
           /\ level = "low" <=> score <= 30
           /\ level = "medium" <=> (score > 30 /\ score <= 70)
           /\ level = "high" <=> score > 70


LevelRank(level) ==
    CASE level = "low" -> 0
      [] level = "medium" -> 1
      [] level = "high" -> 2

\* the four counters of a record
Counters(user) ==
    <<user.total_events, user.total_likes, user.total_dislikes,
      user.preferences.total_sessions>>

-----------------------------------------------------------------------------
(* Ranking on its own: candidate lists of up to MaxCandidates suggestions, *)
(* for visitors with a few learned preferences                             *)

MaxCandidates == 3

MaxPriority == 2

RankUser == "fp_ranked"

\* the candidates: what they offer, and their content type and source
RankActions == {"watch", "listen", "stream"}

RankType(action) ==
    CASE action = "watch" -> "video"
      [] action = "listen" -> "song"
      [] action = "stream" -> "movie"

RankSource(action) ==
    CASE action = "watch" -> "YouTube"
      [] action = "listen" -> "Spotify"
      [] action = "stream" -> "Prime Video"

CandidateLists ==
    {[i \in 1..Len(actions) |->
         Sugg(actions[i], priorities[i], RankType(actions[i]), RankSource(actions[i]))] :
        <<actions, priorities>> \in
           {<<a, p>> \in Arrangements(RankActions, Min(MaxCandidates, 3))
                            \X UNION {[1..n -> 1..MaxPriority] : n \in 0..3} :
               DOMAIN p = 1..Len(a)}}

\* visitors who like and dislike some categories (a dislike does not take
\* a category off the liked list) and prefer some sources
RankedUsers ==
    {[NewUser(RankUser, 0) EXCEPT
         !.preferences.liked_categories = liked,
         !.preferences.disliked_categories = disliked,
         !.preferences.preferred_sources = sources] :
        <<liked, disliked, sources>> \in
           {<<>>, <<"music">>, <<"general">>, <<"music", "entertainment">>}
              \X {<<>>, <<"music">>, <<"general">>}
              \X {<<>>, <<"YouTube">>, <<"spotify">>}}

InitRank == Started(ShippedCatalog, "rank", {})

\* one list is ranked for one visitor
RankSuggestions ==
    /\ request = NoCall
    /\ \E suggestions \in CandidateLists, user_intelligence \in RankedUsers :
          EnhanceSuggestions(suggestions, user_intelligence)

NextRank == RankSuggestions

SpecRank == InitRank /\ [][NextRank]_vars

\* a candidate with its priority blanked
Plain(suggestion) == [suggestion EXCEPT !.priority = 0]

\* C19: the list enhance_suggestions_with_learning returns holds every
\* candidate of its input exactly once, in ascending order of adjusted
\* score, two candidates of equal adjusted score in their input order.
C19_RankingIsStableSort ==
    request.op = "enhance_suggestions_with_learning" =>
        LET input == request.suggestions
            prefs == request.user_intelligence.preferences
            output == response.value.result
            n == Len(input)
        IN /\ ~response.raised
           /\ Len(output) = n
           /\ \E from \in [1..n -> 1..n] :
                 /\ Injective(from)
                 /\ \A i \in 1..n : Plain(output[i]) = Plain(input[from[i]])
                 /\ \A i, k \in 1..n :
                       i < k =>
                          \/ AdjustedScore(input[from[i]], prefs)
                                < AdjustedScore(input[from[k]], prefs)
                          \/ /\ AdjustedScore(input[from[i]], prefs)
                                   = AdjustedScore(input[from[k]], prefs)
                             /\ from[i] < from[k]

\* three candidates come back reordered, two of them with equal scores
C19_Witness ==
    /\ request.op = "enhance_suggestions_with_learning"
    /\ Len(request.suggestions) = 3
    /\ Plain(response.value.result[1]) = Plain(request.suggestions[3])
    /\ AdjustedScore(request.suggestions[1], request.user_intelligence.preferences)
          = AdjustedScore(request.suggestions[2], request.user_intelligence.preferences)
    /\ Plain(response.value.result[2]) = Plain(request.suggestions[1])

\* C20: the priorities of the returned list are 1, 2, ..., N in output
\* order, an empty input gives an empty output, and no candidate differs
\* after the ranking from what it was before in any field but priority.
C20_PrioritiesRenumbered ==
    request.op = "enhance_suggestions_with_learning" =>
        LET input == request.suggestions
            output == response.value.result
            after == response.value.suggestions
        IN /\ ~response.raised
           /\ Len(output) = Len(input)
           /\ \A i \in 1..Len(output) : output[i].priority = i
           /\ input = <<>> => output = <<>>
           /\ Len(after) = Len(input)
           /\ \A j \in 1..Len(input) : Plain(after[j]) = Plain(input[j])
           /\ Range(output) = Range(after)

\* a candidate gets a priority it did not have
C20_Witness ==
    /\ request.op = "enhance_suggestions_with_learning"
    /\ Len(request.suggestions) = 2
    /\ request.suggestions[1].priority = 2
    /\ request.suggestions[2].priority = 2
    /\ response.value.result[1].priority = 1
    /\ Plain(response.value.result[1]) = Plain(request.suggestions[2])

\* the empty list is ranked
C20_WitnessEmpty ==
    /\ request.op = "enhance_suggestions_with_learning"
    /\ request.suggestions = <<>>
    /\ response.value.result = <<>>

\* the category the claim gives a content type
ClaimedCategory(type) ==
    CASE type = "video" -> "entertainment"
      [] type = "song" -> "music"
      [] type = "recipe" -> "cooking"
      [] type = "podcast" -> "education"
      [] type = "article" -> "reading"
      [] type = "app" -> "utility"
      [] OTHER -> "general"

\* C21: the score a candidate is sorted by is its input priority, minus 2
\* if its mapped category is liked, plus 5 if it is disliked (both when it
\* is both), minus 1 if its source is a preferred source, letter case
\* ignored; a content type outside the mapping counts as general, and the
\* call does not fail.
C21_AdjustedScore ==
    request.op = "enhance_suggestions_with_learning" =>
        LET prefs == request.user_intelligence.preferences
        IN /\ ~response.raised
           /\ \A j \in 1..Len(request.suggestions) :
                LET suggestion == request.suggestions[j]
                    category == ClaimedCategory(suggestion.specificContent.type)
                    liked == \E i \in 1..Len(prefs.liked_categories) :
                                prefs.liked_categories[i] = category
                    disliked == \E i \in 1..Len(prefs.disliked_categories) :
                                   prefs.disliked_categories[i] = category
                    preferred == \E i \in 1..Len(prefs.preferred_sources) :
                                    lower(prefs.preferred_sources[i])
                                       = lower(suggestion.specificContent.source)
                IN AdjustedScore(suggestion, prefs) =
                      suggestion.priority
                        - (IF liked THEN 2 ELSE 0)
                        + (IF disliked THEN 5 ELSE 0)
                        - (IF preferred THEN 1 ELSE 0)

\* a song that is liked and disliked, from a source preferred in another
\* letter case (1 - 2 + 5 - 1 = 3), is ranked with a movie, whose type the
\* mapping does not know (2): the movie overtakes the song
C21_Witness ==
    /\ request.op = "enhance_suggestions_with_learning"
    /\ Len(request.suggestions) = 2
    /\ request.suggestions[1].action = "listen"
    /\ request.suggestions[1].priority = 1
    /\ request.suggestions[2].action = "stream"
    /\ request.suggestions[2].priority = 2
    /\ request.user_intelligence.preferences.liked_categories = <<"music">>
    /\ request.user_intelligence.preferences.disliked_categories = <<"music">>
    /\ request.user_intelligence.preferences.preferred_sources = <<"spotify">>
    /\ response.value.result[1].action = "stream"

-----------------------------------------------------------------------------
(* Two request threads at work on one id.  The endpoints are plain `def`   *)
(* functions, which the server runs in a thread pool, and the store takes  *)
(* no lock; a thread may be suspended between the steps below.  Here       *)
(* request[t] is the call thread t is in: where it stands (pc), the record *)
(* object it holds (the one in the store, or one that has been replaced    *)
(* there since and is kept in "detached"), and the value it last read.     *)

RaceUser == "fp_raced"

RaceThreads == {1, 2}

\* the calls a thread may make
RaceCalls(t) ==
    IF t = 1
    THEN {[op |-> "add_events", events |-> <<view_tagged>>]}
    ELSE {[op |-> "add_events", events |-> <<like_tagged>>],
          [op |-> "record_feedback", scenario |-> "night_owl", feedback |-> "like"],
          [op |-> "update_scenario", scenario |-> "night_owl"]}

Idle ==
    [pc |-> "idle", call |-> NoCall, found |-> FALSE, created |-> FALSE,
     ref |-> "none", detached |-> None, i |-> 1, tmp |-> 0]

InitRace ==
    /\ SCENARIOS = ShippedCatalog
    /\ store = EmptyDict
    /\ store_aggregates = EmptyDict
    /\ event_counts = EmptyDict
    /\ feedback_aggregates = EmptyDict
    /\ now = 0
    /\ request = [t \in RaceThreads |-> Idle]
    /\ response = [t \in RaceThreads |-> Returned(None)]
    /\ matched = <<>>
    /\ applied = EmptyDict
    /\ scope = "race"

\* the first statement of the body of a call, after get_or_create_user
BodyOf(call) ==
    CASE call.op = "add_events" -> "append"
      [] call.op = "record_feedback" -> "read_count"
      [] call.op = "update_scenario" -> "history"

\* the record object thread t holds
Held(t) ==
    IF request[t].ref = "store" THEN store[RaceUser] ELSE request[t].detached

\* thread t writes into the record object it holds and moves on
Advance(t, thread, user) ==
    IF request[t].ref = "store"
    THEN /\ store' = [store EXCEPT ![RaceUser] = user]
         /\ request' = [request EXCEPT ![t] = thread]
    ELSE /\ store' = store
         /\ request' = [request EXCEPT ![t] = [thread EXCEPT !.detached = user]]

\* an earlier request, served alone, has made the record
RaceSeed ==
    /\ \A t \in RaceThreads : request[t].pc = "idle"
    /\ RaceUser \notin DOMAIN store
    /\ store' = get_or_create_user(store, RaceUser, now)
    /\ UNCHANGED <<SCENARIOS, store_aggregates, event_counts, feedback_aggregates,
                   now, request, response, matched, applied, scope>>

\* a request arrives and a thread takes it
RaceCall(t) ==
    /\ request[t].pc = "idle"
    /\ \E call \in RaceCalls(t) :
          request' = [request EXCEPT ![t] = [@ EXCEPT !.pc = "lookup", !.call = call]]
    /\ UNCHANGED <<SCENARIOS, store, store_aggregates, event_counts,
                   feedback_aggregates, now, response, matched, applied, scope>>

\* get_or_create_user: "if fingerprint_id not in self._store"
RaceLookup(t) ==
    /\ request[t].pc = "lookup"
    /\ request' = [request EXCEPT ![t] =
          IF RaceUser \in DOMAIN store
          THEN [@ EXCEPT !.found = TRUE, !.ref = "store", !.pc = BodyOf(request[t].call)]
          ELSE [@ EXCEPT !.pc = "create"]]
    /\ UNCHANGED <<SCENARIOS, store, store_aggregates, event_counts,
                   feedback_aggregates, now, response, matched, applied, scope>>

\* get_or_create_user: "self._store[fingerprint_id] = {...}" and the return
\* of the stored record; a thread that held the record stored before is
\* left with an object the store no longer knows
RaceCreate(t) ==
    /\ request[t].pc = "create"
    /\ store' = IF RaceUser \in DOMAIN store
                THEN [store EXCEPT ![RaceUser] = NewUser(RaceUser, now)]
                ELSE store @@ (RaceUser :> NewUser(RaceUser, now))
    /\ request' = [u \in RaceThreads |->
          IF u = t
          THEN [request[u] EXCEPT !.created = TRUE, !.ref = "store",
                                  !.pc = BodyOf(request[u].call)]
          ELSE IF request[u].ref = "store"
          THEN [request[u] EXCEPT !.ref = "detached", !.detached = store[RaceUser]]
          ELSE request[u]]
    /\ UNCHANGED <<SCENARIOS, store_aggregates, event_counts, feedback_aggregates,
                   now, response, matched, applied, scope>>

\* add_events: the event is appended and the buffer trimmed
RaceAppend(t) ==
    /\ request[t].pc = "append"
    /\ Advance(t, [request[t] EXCEPT !.pc = "read_total"],
               [Held(t) EXCEPT !.recent_events =
                   KeepRecent(Append(@, request[t].call.events[request[t].i]))])
    /\ UNCHANGED <<SCENARIOS, store_aggregates, event_counts, feedback_aggregates,
                   now, response, matched, applied, scope>>

\* add_events: user["total_events"] += 1, the read
RaceReadTotal(t) ==
    /\ request[t].pc = "read_total"
    /\ request' = [request EXCEPT ![t] =
          [@ EXCEPT !.tmp = Held(t).total_events, !.pc = "write_total"]]
    /\ UNCHANGED <<SCENARIOS, store, store_aggregates, event_counts,
                   feedback_aggregates, now, response, matched, applied, scope>>

\* add_events: user["total_events"] += 1, the write; then the event count
\* and _update_preferences_from_event, and on to the next event
RaceWriteTotal(t) ==
    /\ request[t].pc = "write_total"
    /\ LET events == request[t].call.events
           event == events[request[t].i]
           u1 == [Held(t) EXCEPT !.total_events = request[t].tmp + 1]
           learned == update_preferences_from_event(u1, event, now)
       IN /\ Advance(t, IF request[t].i < Len(events)
                        THEN [request[t] EXCEPT !.i = @ + 1, !.pc = "append"]
                        ELSE [request[t] EXCEPT !.pc = "stamp"],
                     learned.user)
          /\ event_counts' =
                DictAdd(event_counts, EventGet(event, "event_type", "unknown"), 1)
    /\ UNCHANGED <<SCENARIOS, store_aggregates, feedback_aggregates,
                   now, response, matched, applied, scope>>

\* add_events: updated_at is set and the number of events returned
RaceStamp(t) ==
    /\ request[t].pc = "stamp"
    /\ Advance(t, [request[t] EXCEPT !.pc = "done"],
               [Held(t) EXCEPT !.updated_at = now])
    /\ response' = [response EXCEPT ![t] = Returned(Len(request[t].call.events))]
    /\ UNCHANGED <<SCENARIOS, store_aggregates, event_counts, feedback_aggregates,
                   now, matched, applied, scope>>

\* record_feedback: user["total_likes"] += 1, the read
RaceReadCount(t) ==
    /\ request[t].pc = "read_count"
    /\ request' = [request EXCEPT ![t] =
          [@ EXCEPT !.tmp = IF request[t].call.feedback = "like" THEN Held(t).total_likes
                            ELSE Held(t).total_dislikes,
                    !.pc = "write_count"]]
    /\ UNCHANGED <<SCENARIOS, store, store_aggregates, event_counts,
                   feedback_aggregates, now, response, matched, applied, scope>>

\* record_feedback: the write, and the aggregate of the scenario
RaceWriteCount(t) ==
    /\ request[t].pc = "write_count"
    /\ LET call == request[t].call
       IN /\ Advance(t, [request[t] EXCEPT !.pc = "done"],
                     IF call.feedback = "like"
                     THEN [Held(t) EXCEPT !.total_likes = request[t].tmp + 1]
                     ELSE IF call.feedback = "dislike"
                     THEN [Held(t) EXCEPT !.total_dislikes = request[t].tmp + 1]
                     ELSE Held(t))
          /\ store_aggregates' =
                record_feedback(store, store_aggregates, RaceUser,
                                call.scenario, call.feedback, now).aggregates
    /\ UNCHANGED <<SCENARIOS, event_counts, feedback_aggregates,
                   now, response, matched, applied, scope>>

\* update_scenario: last_scenario, the history, and the affinity entry made
RaceHistory(t) ==
    /\ request[t].pc = "history"
    /\ LET scenario == request[t].call.scenario
       IN Advance(t, [request[t] EXCEPT !.pc = "read_affinity"],
                  [Held(t) EXCEPT
                      !.last_scenario = scenario,
                      !.scenario_history =
                         LastN(Append(@, scenario), ScenarioHistoryCap),
                      !.preferences.scenario_affinity = DictAdd(@, scenario, 0)])
    /\ UNCHANGED <<SCENARIOS, store_aggregates, event_counts, feedback_aggregates,
                   now, response, matched, applied, scope>>

\* update_scenario: scenario_affinity[scenario] += 0.5, the read
RaceReadAffinity(t) ==
    /\ request[t].pc = "read_affinity"
    /\ request' = [request EXCEPT ![t] =
          [@ EXCEPT !.tmp = Held(t).preferences.scenario_affinity[request[t].call.scenario],
                    !.pc = "write_affinity"]]
    /\ UNCHANGED <<SCENARIOS, store, store_aggregates, event_counts,
                   feedback_aggregates, now, response, matched, applied, scope>>

\* update_scenario: the write
RaceWriteAffinity(t) ==
    /\ request[t].pc = "write_affinity"
    /\ Advance(t, [request[t] EXCEPT !.pc = "done"],
               [Held(t) EXCEPT
                   !.preferences.scenario_affinity[request[t].call.scenario] =
                       request[t].tmp + 1])
    /\ UNCHANGED <<SCENARIOS, store_aggregates, event_counts, feedback_aggregates,
                   now, response, matched, applied, scope>>

NextRace ==
    \/ RaceSeed
    \/ \E t \in RaceThreads :
          \/ RaceCall(t) \/ RaceLookup(t) \/ RaceCreate(t)
          \/ RaceAppend(t) \/ RaceReadTotal(t) \/ RaceWriteTotal(t) \/ RaceStamp(t)
          \/ RaceReadCount(t) \/ RaceWriteCount(t)
          \/ RaceHistory(t) \/ RaceReadAffinity(t) \/ RaceWriteAffinity(t)

SpecRace == InitRace /\ [][NextRace]_vars

\* both calls have returned
Quiescent == \A t \in RaceThreads : request[t].pc = "done"

\* the record was there before either call looked for it
Seeded == \A t \in RaceThreads : request[t].found /\ ~request[t].created

\* the store after a call served alone
Served(st, call) ==
    CASE call.op = "add_events" ->
            add_events(st, EmptyDict, RaceUser, call.events, now).store
      [] call.op = "record_feedback" ->
            record_feedback(st, EmptyDict, RaceUser, call.scenario,
                            call.feedback, now).store
      [] call.op = "update_scenario" ->
            update_scenario(st, RaceUser, call.scenario, now)

\* the stores the two calls leave when served one after the other, the
\* record being there before
SerialOutcomes ==
    LET st == get_or_create_user(EmptyDict, RaceUser, 0)
    IN {Served(Served(st, request[1].call), request[2].call),
        Served(Served(st, request[2].call), request[1].call)}

\* the events the two calls submitted
Submitted ==
    (IF request[1].call.op = "add_events" THEN Len(request[1].call.events) ELSE 0)
  + (IF request[2].call.op = "add_events" THEN Len(request[2].call.events) ELSE 0)

\* C22: two mutating calls for one id that run at the same time in two
\* request threads leave the record that serving them in some order, one
\* after the other, would leave: total_events has grown by the number of
\* events submitted, nothing appended or counted is lost, and no bounded
\* list is over its cap.
C22_SameIdCallsLinearizable ==
    (Quiescent /\ Seeded) =>
        /\ store \in SerialOutcomes
        /\ store[RaceUser].total_events = Submitted
        /\ Len(store[RaceUser].recent_events) = Submitted
        /\ Len(store[RaceUser].recent_events) <= 100
        /\ Len(store[RaceUser].scenario_history) <= 20

\* C23: when the two calls name an id that has no record, one record is
\* made for it, once, and at quiescence the stored record holds what both
\* calls wrote: neither wrote into a record object the store has dropped.
C23_OneRecordForNewId ==
    (Quiescent /\ ~Seeded) =>
        /\ Cardinality({t \in RaceThreads : request[t].created}) = 1
        /\ \A t \in RaceThreads : request[t].ref = "store"

-----------------------------------------------------------------------------
(* Habits: one user whose events arrive in a fixed order of hours, content
   types, sources and session durations; each event is a view, a like or a
   session_end *)

MaxHabitEvents == 9

HabitUser == "fp_habit"

HabitKinds == {"view", "like", "session_end"}

\* the hours arrive out of numeric order: the ninth is below the first eight
HabitHours == <<10, 11, 12, 13, 14, 15, 16, 17, 3>>

\* the sixth content type and the sixth source repeat the first
HabitTypes ==
    <<"video", "music", "news", "movie", "podcast", "video", "devotional",
      "sports", "recipe">>

HabitSources ==
    <<"YouTube", "Spotify", "Prime Video", "Netflix", "JioSaavn", "YouTube",
      "Hotstar", "Gaana", "Zee5">>

HabitDurations == <<1000, 2001, 1500, 0, 3000, -5, 2500, 4001, 1000>>

Scripted(script, i) == script[((i - 1) % Len(script)) + 1]

\* the i-th event of the user, of the given kind
HabitEvent(i, kind) ==
    IF kind = "session_end"
    THEN [event_type |-> "session_end",
          duration_ms |-> SomeInt(Scripted(HabitDurations, i)),
          timestamp |-> Scripted(HabitHours, i) * MsPerHour]
    ELSE IF kind = "like"
    THEN [event_type |-> "like",
          source |-> Scripted(HabitSources, i),
          timestamp |-> Scripted(HabitHours, i) * MsPerHour]
    ELSE [event_type |-> "view",
          content_type |-> Scripted(HabitTypes, i),
          source |-> Scripted(HabitSources, i),
          timestamp |-> Scripted(HabitHours, i) * MsPerHour]

InitHabits == Started(ShippedCatalog, "habits", {})

HabitsAdd(kind) ==
    /\ AppliedTo(HabitUser) < MaxHabitEvents
    /\ AddEvents(HabitUser, <<HabitEvent(AppliedTo(HabitUser) + 1, kind)>>)

NextHabits == HabitsAdd("view") \/ HabitsAdd("like") \/ HabitsAdd("session_end")

SpecHabits == InitHabits /\ [][NextHabits]_vars

\* the events of the user so far, oldest first
HabitEvents ==
    IF HabitUser \in DOMAIN store THEN store[HabitUser].recent_events ELSE <<>>

\* a list of at most cap members that drops the member inserted earliest
RECURSIVE EvictOldest(_, _, _)
EvictOldest(values, n, cap) ==
    IF n = 0 THEN <<>>
    ELSE LET kept == EvictOldest(values, n - 1, cap)
         IN IF values[n] \in Range(kept) THEN kept
            ELSE LastN(Append(kept, values[n]), cap)

\* the cap most recently observed distinct values, oldest to newest
RECURSIVE MostRecentDistinct(_, _, _)
MostRecentDistinct(values, n, cap) ==
    IF n = 0 THEN <<>>
    ELSE LastN(Append(ListRemove(MostRecentDistinct(values, n - 1, cap),
                                 values[n]), values[n]), cap)

\* the values of one field over the events of the given types
RECURSIVE Observed(_, _, _, _)
Observed(events, n, key, types) ==
    IF n = 0 THEN <<>>
    ELSE LET rest == Observed(events, n - 1, key, types)
         IN IF events[n].event_type \in types /\ key \in DOMAIN events[n]
            THEN Append(rest, events[n][key])
            ELSE rest

HoursObserved == [i \in 1..Len(HabitEvents) |-> HourOf(HabitEvents[i].timestamp)]

\* C26: active_hours evicts its oldest member: when an event's hour is new
\* and the list holds 8 hours, the hour inserted earliest is removed and the
\* new hour is kept, whatever the numeric values; all values are in 0..23.
C26_OldestHourEvicted ==
    HabitUser \in DOMAIN store =>
        LET active_hours == store[HabitUser].preferences.active_hours
        IN /\ Range(active_hours) =
                  Range(EvictOldest(HoursObserved, Len(HoursObserved),
                                    ActiveHoursCap))
           /\ Range(active_hours) \subseteq 0..23

\* C27: preferred_content_types (resp. preferred_sources) holds the 5 most
\* recently observed distinct content types of view/click events (resp.
\* sources of view/click/like events), oldest to newest; a value observed
\* again counts as most recent.
C27_MostRecentDistinctKept ==
    HabitUser \in DOMAIN store =>
        LET prefs == store[HabitUser].preferences
            types == Observed(HabitEvents, Len(HabitEvents), "content_type",
                              {"view", "click"})
            sources == Observed(HabitEvents, Len(HabitEvents), "source",
                                {"view", "click", "like"})
        IN /\ prefs.preferred_content_types =
                  MostRecentDistinct(types, Len(types), ContentTypesCap)
           /\ prefs.preferred_sources =
                  MostRecentDistinct(sources, Len(sources), SourcesCap)

\* the session count and average before the user exists
SessionsOf(st) ==
    IF HabitUser \in DOMAIN st
    THEN [n |-> st[HabitUser].preferences.total_sessions,
          a |-> st[HabitUser].preferences.avg_session_duration_ms]
    ELSE [n |-> 0, a |-> 0]

\* C28: a session_end with duration d > 0 sets the average to
\* (a*n + d)/(n+1) with the pre-update count n and the count to n+1; a
\* session_end with duration <= 0 and every other event leave both unchanged.
C28_RunningMean ==
    [][LET event == request'.events[1]
           d == IF "duration_ms" \in DOMAIN event THEN IntOf(event.duration_ms)
                ELSE 0
           before == SessionsOf(store)
           after == SessionsOf(store')
       IN IF event.event_type = "session_end" /\ d > 0
          THEN /\ after.n = before.n + 1
               /\ after.a * (before.n + 1) = before.a * before.n + d
          ELSE after = before]_vars

-----------------------------------------------------------------------------
(* POST /v1/feedback on its own: requests with and without a fingerprint   *)
(* id, for two personas, any of them sent again                            *)

\* feedback requests served
MaxSubmits == 4

SubmitUser == "fp_submit"

SubmitRequests ==
    {[fingerprint_id |-> fingerprint_id, scenario |-> scenario,
      feedback |-> feedback, category |-> "music", content_type |-> "song",
      source |-> "Spotify", timestamp |-> now] :
     fingerprint_id \in {SubmitUser, None}, scenario \in HistoryPersonas,
     feedback \in {"like", "dislike"}}

\* feedback counted on the legacy module-level dict so far
LegacyTotal ==
    LET Total(sc) == feedback_aggregates[sc].likes + feedback_aggregates[sc].dislikes
        Count(sc) == IF sc \in DOMAIN feedback_aggregates THEN Total(sc) ELSE 0
    IN Count("night_owl") + Count("weekend_family")

InitSubmit == Started(ShippedCatalog, "submit", {})

SubmitLearning ==
    \E feedback \in SubmitRequests :
        /\ feedback.fingerprint_id # None
        /\ AppliedTo(SubmitUser) + LegacyTotal < MaxSubmits
        /\ submit_feedback(feedback)

SubmitLegacy ==
    \E feedback \in SubmitRequests :
        /\ feedback.fingerprint_id = None
        /\ AppliedTo(SubmitUser) + LegacyTotal < MaxSubmits
        /\ submit_feedback(feedback)

NextSubmit == SubmitLearning \/ SubmitLegacy

SpecSubmit == InitSubmit /\ [][NextSubmit]_vars

\* C30: a feedback request with a fingerprint id runs both paths once, with
\* no deduplication: total_likes or total_dislikes and the persona aggregate
\* go up by 1 (record_feedback), one like/dislike event is appended,
\* total_events goes up by 1 and the persona's affinity changes by +1 (like)
\* or -0.5 (dislike) (add_events); the counts in the response include the
\* feedback just submitted.
C30_FeedbackRunsBothPaths ==
    [][LET feedback == request'.feedback
           fingerprint_id == feedback.fingerprint_id
       IN Truthy(fingerprint_id) =>
            LET before == RecordOf(store, fingerprint_id)
                after == store'[fingerprint_id]
                p == feedback.scenario
                like == IF feedback.feedback = "like" THEN 1 ELSE 0
            IN /\ after.total_likes = before.total_likes + like
               /\ after.total_dislikes = before.total_dislikes + (1 - like)
               /\ store_aggregates'[p].likes =
                     AggregateOf(store_aggregates, p).likes + like
               /\ store_aggregates'[p].dislikes =
                     AggregateOf(store_aggregates, p).dislikes + (1 - like)
               /\ after.total_events = before.total_events + 1
               /\ Len(after.recent_events) = Len(before.recent_events) + 1
               /\ SubSeq(after.recent_events, 1, Len(before.recent_events))
                     = before.recent_events
               /\ after.recent_events[Len(after.recent_events)].event_type
                     = feedback.feedback
               /\ AffinityOf(after, p) =
                     AffinityOf(before, p) + (IF like = 1 THEN 2 ELSE -1)
               /\ response'.value.total_likes = store_aggregates'[p].likes
               /\ response'.value.total_dislikes = store_aggregates'[p].dislikes
               /\ response'.value.learning_applied
               /\ feedback_aggregates' = feedback_aggregates]_vars

\* the same like sent twice in a row by the user: counted twice on both
\* paths, and the response reports both
C30_Witness ==
    /\ request.op = "submit_feedback"
    /\ request.feedback.fingerprint_id = SubmitUser
    /\ request.feedback.feedback = "like"
    /\ SubmitUser \in DOMAIN store
    /\ LET user == store[SubmitUser]
           p == request.feedback.scenario
           n == Len(user.recent_events)
       IN /\ n = 2
          /\ user.recent_events[1] = user.recent_events[2]
          /\ user.total_likes = 2
          /\ user.total_events = 2
          /\ AffinityOf(user, p) = 4
          /\ store_aggregates[p].likes = 2
          /\ response.value.total_likes = 2

-----------------------------------------------------------------------------
(* The readers of a record: one user who learns through the three          *)
(* mutators while summaries are read and suggestions are ranked for them,  *)
(* and the clock moves on by whole days                                    *)

\* days the clock may advance
MaxViewDays == 2

\* events the user sends
MaxViewEvents == 2

ViewUser == "fp_viewed"

view_sourced ==
    [event_type |-> "view", content_type |-> "song", source |-> "Spotify",
     scenario |-> "weekend_family"]

InitViews == Started(ShippedCatalog, "views", {})

ViewsAdd ==
    /\ AppliedTo(ViewUser) < MaxViewEvents
    /\ \E event \in {like_tagged, dislike_tagged, view_sourced} :
          AddEvents(ViewUser, <<event>>)

ViewsFeedback ==
    /\ RecordOf(store, ViewUser).total_likes = 0
    /\ RecordFeedback(ViewUser, "weekend_family", "like")

ViewsScenario ==
    /\ RecordOf(store, ViewUser).scenario_history = <<>>
    /\ UpdateScenario(ViewUser, "weekend_family")

ViewsSummary == GetIntelligenceSummary(ViewUser)

\* the ranking initialize_context asks for, with the record of the store
ViewsRank ==
    /\ ViewUser \in DOMAIN store
    /\ EnhanceSuggestions(weekend_family.suggestions, store[ViewUser])

ViewsTick == now < MaxViewDays * MsPerDay /\ Tick(MsPerDay)

NextViews ==
    \/ ViewsAdd \/ ViewsFeedback \/ ViewsScenario
    \/ ViewsSummary \/ ViewsRank \/ ViewsTick

SpecViews == InitViews /\ [][NextViews]_vars

\* C32: enhance_suggestions_with_learning changes no field of the user's
\* record, and get_intelligence_summary changes no field other than the
\* persisted journey_day: events, preferences, counters, last scenario and
\* scenario history are as before.
C32_ReadersChangeOnlyJourneyDay ==
    [][now' = now =>
         /\ request'.op = "enhance_suggestions_with_learning" =>
               /\ store' = store
               /\ request'.user_intelligence = store'[ViewUser]
         /\ request'.op = "get_intelligence_summary" =>
               LET fingerprint_id == request'.fingerprint_id
                   before == RecordOf(store, fingerprint_id)
                   after == store'[fingerprint_id]
               IN /\ [after EXCEPT !.journey_day = before.journey_day] = before
                  /\ after.journey_day = response'.value.journey_day
                  /\ \A other \in DOMAIN store \ {fingerprint_id} :
                        store'[other] = store[other]]_vars

\* a summary read two days after the record was made: the record has
\* learned from events, feedback and a match, and holds the new journey day
C32_Witness ==
    /\ request.op = "get_intelligence_summary"
    /\ ViewUser \in DOMAIN store
    /\ LET user == store[ViewUser]
       IN /\ user.journey_day = 2
          /\ user.updated_at < now
          /\ user.total_events = 2
          /\ user.total_likes = 1
          /\ user.preferences.liked_categories = <<"music">>
          /\ user.scenario_history = <<"weekend_family">>

\* a ranking that reordered the candidates for a record that has learned
C32_WitnessRank ==
    /\ request.op = "enhance_suggestions_with_learning"
    /\ request.user_intelligence.preferences.preferred_sources = <<"Spotify">>
    /\ request.user_intelligence.preferences.liked_categories = <<"music">>
    /\ request.suggestions[3].action = "play_song"
    /\ response.value.result[1].action = "play_song"

-----------------------------------------------------------------------------
(* Two requests for different ids in flight at once.  Each thread works on *)
(* the record of its own id; what the threads share is the dict of         *)
(* feedback aggregates and the dict of event counts.  request[t] is the    *)
(* call thread t is in, where it stands (pc), the value it last read (tmp) *)
(* and whether the aggregate entry it took hold of is still the one in the *)
(* dict (ref).                                                             *)

SharedThreads == {1, 2}

SharedUser(t) == IF t = 1 THEN "fp_left" ELSE "fp_right"

\* the calls a thread may make
SharedCalls ==
    {[op |-> "record_feedback", scenario |-> "night_owl", feedback |-> "like"],
     [op |-> "record_feedback", scenario |-> "night_owl", feedback |-> "dislike"],
     [op |-> "add_events", events |-> <<view_tagged>>],
     [op |-> "add_events", events |-> <<like_tagged>>]}

SharedIdle == [pc |-> "idle", call |-> NoCall, ref |-> "none", tmp |-> 0]

InitShared ==
    /\ SCENARIOS = ShippedCatalog
    /\ store = EmptyDict
    /\ store_aggregates = EmptyDict
    /\ event_counts = EmptyDict
    /\ feedback_aggregates = EmptyDict
    /\ now = 0
    /\ request = [t \in SharedThreads |-> SharedIdle]
    /\ response = [t \in SharedThreads |-> Returned(None)]
    /\ matched = <<>>
    /\ applied = EmptyDict
    /\ scope = "shared"

\* an earlier request, served alone, has left an aggregate for the persona
SharedSeed ==
    /\ \A t \in SharedThreads : request[t].pc = "idle"
    /\ store_aggregates = EmptyDict
    /\ store_aggregates' = ("night_owl" :> [likes |-> 0, dislikes |-> 0])
    /\ UNCHANGED <<SCENARIOS, store, event_counts, feedback_aggregates,
                   now, request, response, matched, applied, scope>>

\* a request arrives and a thread takes it
SharedCall(t) ==
    /\ request[t].pc = "idle"
    /\ \E call \in SharedCalls :
          request' = [request EXCEPT ![t] = [@ EXCEPT !.pc = "user", !.call = call]]
    /\ UNCHANGED <<SCENARIOS, store, store_aggregates, event_counts,
                   feedback_aggregates, now, response, matched, applied, scope>>

\* the statements that touch only the record of the thread's own id:
\* record_feedback up to the user's counter, add_events up to total_events
SharedOwnRecord(t) ==
    /\ request[t].pc = "user"
    /\ LET call == request[t].call
       IN IF call.op = "record_feedback"
          THEN /\ store' = record_feedback(store, EmptyDict, SharedUser(t),
                                           call.scenario, call.feedback, now).store
               /\ request' = [request EXCEPT ![t].pc = "check"]
          ELSE /\ store' = add_events(store, EmptyDict, SharedUser(t),
                                      call.events, now).store
               /\ request' = [request EXCEPT ![t].pc = "read_events"]
    /\ UNCHANGED <<SCENARIOS, store_aggregates, event_counts, feedback_aggregates,
                   now, response, matched, applied, scope>>

\* record_feedback: "if scenario not in self._feedback_aggregates"
SharedCheck(t) ==
    /\ request[t].pc = "check"
    /\ request' = [request EXCEPT ![t].pc =
          IF request[t].call.scenario \in DOMAIN store_aggregates
          THEN "read_aggregate" ELSE "insert"]
    /\ UNCHANGED <<SCENARIOS, store, store_aggregates, event_counts,
                   feedback_aggregates, now, response, matched, applied, scope>>

\* record_feedback: "self._feedback_aggregates[scenario] = {...}"; a thread
\* that had taken hold of the entry stored before is left with a dict the
\* store no longer knows
SharedInsert(t) ==
    /\ request[t].pc = "insert"
    /\ LET scenario == request[t].call.scenario
           fresh == [likes |-> 0, dislikes |-> 0]
       IN /\ store_aggregates' =
                IF scenario \in DOMAIN store_aggregates
                THEN [store_aggregates EXCEPT ![scenario] = fresh]
                ELSE store_aggregates @@ (scenario :> fresh)
          /\ request' = [u \in SharedThreads |->
                IF u = t THEN [request[u] EXCEPT !.pc = "read_aggregate"]
                ELSE IF request[u].ref = "store"
                THEN [request[u] EXCEPT !.ref = "detached"]
                ELSE request[u]]
    /\ UNCHANGED <<SCENARIOS, store, event_counts, feedback_aggregates,
                   now, response, matched, applied, scope>>

\* record_feedback: self._feedback_aggregates[scenario]["likes"] += 1, the
\* look-up of the entry and the read of its counter
SharedReadAggregate(t) ==
    /\ request[t].pc = "read_aggregate"
    /\ LET call == request[t].call
           entry == store_aggregates[call.scenario]
       IN request' = [request EXCEPT ![t] =
             [@ EXCEPT !.ref = "store",
                       !.tmp = IF call.feedback = "like" THEN entry.likes
                               ELSE entry.dislikes,
                       !.pc = "write_aggregate"]]
    /\ UNCHANGED <<SCENARIOS, store, store_aggregates, event_counts,
                   feedback_aggregates, now, response, matched, applied, scope>>

\* record_feedback: the write, into the entry the thread took hold of
SharedWriteAggregate(t) ==
    /\ request[t].pc = "write_aggregate"
    /\ LET call == request[t].call
       IN store_aggregates' =
             IF request[t].ref # "store" THEN store_aggregates
             ELSE IF call.feedback = "like"
             THEN [store_aggregates EXCEPT ![call.scenario].likes = request[t].tmp + 1]
             ELSE [store_aggregates EXCEPT ![call.scenario].dislikes = request[t].tmp + 1]
    /\ request' = [request EXCEPT ![t] = [@ EXCEPT !.pc = "done", !.ref = "none"]]
    /\ response' = [response EXCEPT ![t] = Returned(None)]
    /\ UNCHANGED <<SCENARIOS, store, event_counts, feedback_aggregates,
                   now, matched, applied, scope>>

\* add_events: self._event_counts[event_type] += 1, the read (a defaultdict
\* answers 0 for a missing key)
SharedReadEvents(t) ==
    /\ request[t].pc = "read_events"
    /\ LET event_type == EventGet(request[t].call.events[1], "event_type", "unknown")
       IN request' = [request EXCEPT ![t] =
             [@ EXCEPT !.tmp = IF event_type \in DOMAIN event_counts
                               THEN event_counts[event_type] ELSE 0,
                       !.pc = "write_events"]]
    /\ UNCHANGED <<SCENARIOS, store, store_aggregates, event_counts,
                   feedback_aggregates, now, response, matched, applied, scope>>

\* add_events: the write, and the return
SharedWriteEvents(t) ==
    /\ request[t].pc = "write_events"
    /\ LET event_type == EventGet(request[t].call.events[1], "event_type", "unknown")
       IN event_counts' =
             IF event_type \in DOMAIN event_counts
             THEN [event_counts EXCEPT ![event_type] = request[t].tmp + 1]
             ELSE event_counts @@ (event_type :> request[t].tmp + 1)
    /\ request' = [request EXCEPT ![t].pc = "done"]
    /\ response' = [response EXCEPT ![t] = Returned(Len(request[t].call.events))]
    /\ UNCHANGED <<SCENARIOS, store, store_aggregates, feedback_aggregates,
                   now, matched, applied, scope>>

NextShared ==
    \/ SharedSeed
    \/ \E t \in SharedThreads :
          \/ SharedCall(t) \/ SharedOwnRecord(t)
          \/ SharedCheck(t) \/ SharedInsert(t)
          \/ SharedReadAggregate(t) \/ SharedWriteAggregate(t)
          \/ SharedReadEvents(t) \/ SharedWriteEvents(t)

SpecShared == InitShared /\ [][NextShared]_vars

\* both calls have returned
SharedQuiescent == \A t \in SharedThreads : request[t].pc = "done"

\* record_feedback calls of a polarity made for a persona
FeedbackCalls(p, polarity) ==
    Cardinality({t \in SharedThreads :
                    /\ request[t].call.op = "record_feedback"
                    /\ request[t].call.scenario = p
                    /\ request[t].call.feedback = polarity})

\* events of a type applied
EventsApplied(event_type) ==
    Cardinality({t \in SharedThreads :
                    /\ request[t].call.op = "add_events"
                    /\ request[t].call.events[1].event_type = event_type})

\* C33: concurrent record_feedback and add_events calls for different ids
\* lose no update to the state they share: at quiescence each persona's
\* aggregate likes and dislikes equal the record_feedback calls of that
\* polarity made for it, and each event count equals the events of that
\* type applied.
C33_SharedCountersLoseNothing ==
    SharedQuiescent =>
        /\ AggregateOf(store_aggregates, "night_owl").likes
              = FeedbackCalls("night_owl", "like")
        /\ AggregateOf(store_aggregates, "night_owl").dislikes
              = FeedbackCalls("night_owl", "dislike")
        /\ \A event_type \in {"view", "like"} :
              (IF event_type \in DOMAIN event_counts
               THEN event_counts[event_type] ELSE 0) = EventsApplied(event_type)

-----------------------------------------------------------------------------
(* Several callers of POST /v1/init on one process: a user who comes to   *)
(* like music and Spotify, a user without preferences and callers without *)
(* a fingerprint id, all on a weekend snapshot, for which the suggestions  *)
(* of weekend_family are the candidates                                    *)

\* personalization requests per user
MaxTenantInits == 2

TenantFan == "fp_fan"

TenantPlain == "fp_plain"

Tenants == {TenantFan, TenantPlain}

WeekendSignals(fingerprint_id) ==
    [DefaultSignals EXCEPT !.fingerprint_id = fingerprint_id,
                           !.context.is_weekend = TRUE]

InitTenants == Started(ShippedCatalog, "tenants", {})

\* what the fan sends through POST /v1/event, each once
TenantEvents ==
    {UserEvent("like", "music", None, None, None, now, NoInt),
     UserEvent("view", None, None, "Spotify", None, now, NoInt)}

TenantsLearn ==
    \E event \in TenantEvents :
        /\ event \notin Range(RecordOf(store, TenantFan).recent_events)
        /\ track_events(TenantFan, <<event>>)

\* a caller without a fingerprint id does not repeat the request just made
TenantsInit ==
    \E fingerprint_id \in Tenants \cup {None} :
        /\ IF fingerprint_id = None
           THEN request # [op |-> "initialize_context", signals |-> WeekendSignals(None)]
           ELSE Len(RecordOf(store, fingerprint_id).scenario_history) < MaxTenantInits
        /\ initialize_context(WeekendSignals(fingerprint_id))

NextTenants == TenantsLearn \/ TenantsInit

SpecTenants == InitTenants /\ [][NextTenants]_vars

\* the order of a list of suggestions
ActionsOf(suggestions) == [i \in 1..Len(suggestions) |-> suggestions[i].action]

\* what the ranking reads of a record
RankingInputs(user) ==
    <<user.preferences.liked_categories, user.preferences.disliked_categories,
      user.preferences.preferred_sources>>

\* C34: the suggestions a user receives for a persona depend only on the
\* user's own preferences and the catalog as loaded at start: earlier
\* requests of other callers change neither their order nor their priority
\* numbers, and a request without a fingerprint id receives the persona's
\* suggestions with priorities 1..k in order.
C34_RankingIsolatedBetweenUsers ==
    [][request'.op = "initialize_context" =>
         LET fingerprint_id == request'.signals.fingerprint_id
             value == response'.value
             pos == ScenarioOrFallback(ShippedCatalog, value.matched_scenario)
             base == ShippedCatalog[pos].suggestions
         IN IF Truthy(fingerprint_id)
            THEN value.suggestions
                    = FirstN(enhance_suggestions_with_learning(
                                 base, store'[fingerprint_id]).result, 3)
            ELSE /\ value.suggestions = FirstN(base, 3)
                 /\ \A i \in 1..Len(value.suggestions) :
                       value.suggestions[i].priority = i]_vars

\* C35: ranking is idempotent for fixed preferences: ranking a ranked list
\* again with the same preferences keeps its order, so a user whose
\* preferences have not changed receives the same order on a repeated
\* request for the same persona.
C35_RankingIdempotent ==
    [][(/\ request'.op = "initialize_context"
        /\ Truthy(request'.signals.fingerprint_id)) =>
         LET fingerprint_id == request'.signals.fingerprint_id
             user == store'[fingerprint_id]
             pos == ScenarioOrFallback(SCENARIOS, response'.value.matched_scenario)
             ranked == enhance_suggestions_with_learning(
                           SCENARIOS[pos].suggestions, user).result
         IN /\ ActionsOf(enhance_suggestions_with_learning(ranked, user).result)
                  = ActionsOf(ranked)
            /\ (/\ request.op = "initialize_context"
                /\ request.signals.fingerprint_id = fingerprint_id
                /\ response.value.matched_scenario = response'.value.matched_scenario
                /\ RankingInputs(store[fingerprint_id]) = RankingInputs(user))
               => ActionsOf(response'.value.suggestions)
                     = ActionsOf(response.value.suggestions)]_vars

-----------------------------------------------------------------------------
(* The global aggregates against the users' totals: two users who give     *)
(* feedback on two personas, with known and unknown polarities, send like  *)
(* events, and read the statistics                                         *)

\* record_feedback calls with a like or a dislike, over both users
MaxTotals == 4

TotalsUsers == {"fp_one", "fp_two"}

\* "general" is what a request without a match is answered with
TotalsPersonas == {"night_owl", "general"}

RECURSIVE SumOf(_, _)
SumOf(f, keys) ==
    IF keys = {} THEN 0
    ELSE LET k == CHOOSE k \in keys : TRUE
         IN f[k] + SumOf(f, keys \ {k})

\* get_feedback_stats()
get_feedback_stats(aggregates, counts) ==
    [scenarios |-> aggregates,
     total_feedback |->
        SumOf([p \in DOMAIN aggregates |-> aggregates[p].likes + aggregates[p].dislikes],
              DOMAIN aggregates),
     event_counts |-> counts]

UserLikes(st) == SumOf([id \in DOMAIN st |-> st[id].total_likes], DOMAIN st)

UserDislikes(st) == SumOf([id \in DOMAIN st |-> st[id].total_dislikes], DOMAIN st)

PersonaLikes(aggregates) ==
    SumOf([p \in DOMAIN aggregates |-> aggregates[p].likes], DOMAIN aggregates)

PersonaDislikes(aggregates) ==
    SumOf([p \in DOMAIN aggregates |-> aggregates[p].dislikes], DOMAIN aggregates)

InitTotals == Started(ShippedCatalog, "totals", {})

TotalsRecord ==
    \E fingerprint_id \in TotalsUsers, p \in TotalsPersonas,
       polarity \in {"like", "dislike", "love"} :
        /\ UserLikes(store) + UserDislikes(store) < MaxTotals
        /\ RecordFeedback(fingerprint_id, p, polarity)

TotalsAdd ==
    \E fingerprint_id \in TotalsUsers :
        /\ AppliedTo(fingerprint_id) < 1
        /\ AddEvents(fingerprint_id, <<like_tagged>>)

TotalsStats ==
    /\ request' = [op |-> "get_feedback_stats"]
    /\ response' = Returned(get_feedback_stats(store_aggregates, event_counts))
    /\ UNCHANGED <<SCENARIOS, store, store_aggregates, event_counts,
                   feedback_aggregates, now, matched, applied, scope>>

NextTotals == TotalsRecord \/ TotalsAdd \/ TotalsStats

SpecTotals == InitTotals /\ [][NextTotals]_vars

\* C39: in every state reached by sequential store operations the aggregate
\* likes summed over the personas equal total_likes summed over the users,
\* and likewise for dislikes, so the statistics report as much feedback as
\* the users gave; a record_feedback whose polarity is neither like nor
\* dislike changes no counter at all.
C39_AggregatesMatchUserTotals ==
    /\ [](/\ PersonaLikes(store_aggregates) = UserLikes(store)
          /\ PersonaDislikes(store_aggregates) = UserDislikes(store)
          /\ request.op = "get_feedback_stats" =>
                response.value.total_feedback
                    = UserLikes(store) + UserDislikes(store))
    /\ [][(request'.op = "record_feedback"
             /\ request'.feedback \notin {"like", "dislike"}) =>
            /\ \A fingerprint_id \in DOMAIN store' :
                  Counters(store'[fingerprint_id])
                      = Counters(RecordOf(store, fingerprint_id))
            /\ \A p \in DOMAIN store_aggregates' :
                  store_aggregates'[p] = AggregateOf(store_aggregates, p)
            /\ event_counts' = event_counts
            /\ feedback_aggregates' = feedback_aggregates]_vars

\* an unknown polarity for a persona nobody rated, after both users gave
\* feedback
C39_Witness ==
    /\ request.op = "record_feedback"
    /\ request.feedback = "love"
    /\ request.scenario = "general"
    /\ "general" \in DOMAIN store_aggregates
    /\ store_aggregates["general"] = [likes |-> 0, dislikes |-> 0]
    /\ DOMAIN store = TotalsUsers
    /\ store["fp_one"].total_likes = 2
    /\ store["fp_two"].total_dislikes = 1
    /\ store["fp_two"].total_events = 1

\* the statistics read after feedback on both personas
C39_WitnessStats ==
    /\ request.op = "get_feedback_stats"
    /\ response.value.total_feedback = MaxTotals
    /\ \A p \in TotalsPersonas :
          /\ p \in DOMAIN store_aggregates
          /\ store_aggregates[p].likes > 0

====
